---- MODULE Spec2Model ----
(***************************************************************************)
(* Transaction admission and progressive batching of op-rbuilder:          *)
(*   - the multi-resource limit checker  (primitives/reth/execution.rs)    *)
(*   - the execution-time extension      (base/execution.rs)               *)
(*   - the resource metering cache       (resource_metering.rs)            *)
(*   - the progressive batch context     (base/flashblocks.rs)             *)
(*   - the backrun bundle store          (bundles.rs)                      *)
(*   - the bundle iterators              (builders/flashblocks/best_*.rs)  *)
(*   - the simulating pool validator     (sim_validator.rs)                *)
(*   - the backrun bundle RPC            (bundles.rs, send_backrun_bundle) *)
(* Integers are modelled with a reduced width: U64Max and U128Max stand    *)
(* for u64::MAX and u128::MAX.  A plain Rust `+` that overflows panics     *)
(* when the build has overflow checks (debug) and wraps otherwise          *)
(* (release); the variable overflow_checks is the profile of the build.    *)
(***************************************************************************)
EXTENDS Integers, Sequences, FiniteSets, TLC

\* ---------------------------------------------------------------- bounds
\* largest value of the (reduced) u64
U64Max == 4095
\* largest value of the (reduced) u128
U128Max == 1048575

\* Option::None of an Option<u64> / Option<u16>
None == -1
\* outcome of an overflowing `+` in a build with overflow checks
Overflow == -2

\* ------------------------------------------------------------- arithmetic
saturating_add(a, b, max) == IF a + b > max THEN max ELSE a + b

\* a footprint that leaves the gas scalar out
saturating_mul_ignores_factor(a, b, max) == IF a > max THEN max ELSE a

saturating_mul(a, b, max) == IF a * b > max THEN max ELSE a * b

saturating_sub(a, b) == IF a < b THEN 0 ELSE a - b

\* the `+` operator of Rust on an unsigned integer of the given width
add_op(a, b, max, checks) ==
    IF a + b <= max THEN a + b
    ELSE IF checks THEN Overflow
    ELSE (a + b) % (max + 1)

\* -------------------------------------------------------------- variables
VARIABLES
    overflow_checks,   \* build profile: TRUE = overflow panics, FALSE = wraps
    info,              \* ExecutionInfo: the three cumulative counters
    limits,            \* LimitContext of the block
    cand,              \* TxUsage of the candidate last checked
    res,               \* result of the last is_tx_over_limits
    pc,                \* position of the block-building task
    enabled,           \* Data::enabled
    by_tx_hash,        \* Data::by_tx_hash: hash -> measurement, None = absent
    lru,               \* Data::lru: bounded queue of hashes
    writer,            \* the insert holding a shard's write lock, or NoWriter
    got,               \* what the last get returned, NoGet once the cache changed
    push_log,          \* history: the pushes completed since the last clear
    evicted,           \* history: hashes removed by an eviction since their push
    cleared,           \* history: clear has been called
    base,              \* BaseExecutionState::cumulative_execution_time_us
    fb_ctx,            \* BaseFlashblocksCtx of the batch that is open
    fb_index,          \* index of the flashblock that is open
    bpc,               \* position of the flashblocks payload builder
    sent,              \* number of transactions sent to the pool
    landed,            \* hash -> block and flashblock it was included in
    left_out,          \* <<hash, flashblock>>: left out of that flashblock of the block
    block_no,          \* number of blocks sealed
    chk,               \* result of the last check_tx
    cfg,               \* builder arguments: per-batch quota, enforce flag
    warned,            \* BaseMetrics::execution_time_limit_exceeded, counted per block
    by_target_tx,      \* BackrunData::by_target_tx: target -> backrun lists, <<>> = absent
    backrun_lru,       \* BackrunData::lru: bounded queue of target hashes
    sop,               \* the last call on the backrun store and its result
    ins_log,           \* history: the bundles stored by successful inserts
    removed,           \* history: the targets remove was called for
    bundle_pool,       \* InMemoryBundlePool::get_bundles(): bundles in priority order
    bundles,           \* BestFlashblocksBundles::bundles of the session
    curr_bundles_idx,  \* BestFlashblocksBundles::curr_bundles_idx
    current_flashblock_number, \* BestFlashblocksBundles::current_flashblock_number
    current_block_num, \* BestFlashblocksBundles::current_block_num
    returned,          \* history: positions of the bundles next returned this session
    exhausted,         \* history: next returned None this session
    backrun_bundles,   \* BestFlashblocksBundles::backrun_bundles of the session
    yielded,           \* history: the bundles next returned in earlier sessions
    txs_bundles,       \* BestFlashblocksTxs::bundles of the session
    bundle_idx,        \* BestFlashblocksTxs::bundle_idx
    commited_transactions, \* BestFlashblocksTxs::commited_transactions
    txs_returned,      \* history: bundles next returned, with the committed set then
    txs_exhausted,     \* history: next returned None this session
    vpc,               \* position of the pool validation task
    vin,               \* the (origin, transaction) pairs handed to the validator
    inner_outcomes,    \* what the inner validator returned for them
    outcomes,          \* the outcomes the simulating validator returns
    sim_calls,         \* the calls of TxSimulator::simulate made by the validation
    callers            \* concurrent callers of the backrun store: position and locals

limit_vars == <<info, limits, cand, res, pc>>

cache_vars == <<enabled, by_tx_hash, lru, writer, got, push_log, evicted, cleared>>

builder_vars ==
    <<base, fb_ctx, fb_index, bpc, sent, landed, left_out, block_no, chk, cfg,
      warned>>

store_vars == <<by_target_tx, backrun_lru, sop, ins_log, removed>>

iter_vars ==
    <<bundle_pool, bundles, curr_bundles_idx, current_flashblock_number,
      current_block_num, returned, exhausted, backrun_bundles, yielded>>

txs_vars ==
    <<txs_bundles, bundle_idx, commited_transactions, txs_returned, txs_exhausted>>

bundle_vars == <<store_vars, iter_vars, txs_vars>>

sim_vars == <<vpc, vin, inner_outcomes, outcomes, sim_calls>>

vars == <<overflow_checks, info, limits, cand, res, pc,
          enabled, by_tx_hash, lru, writer, got, push_log, evicted, cleared,
          base, fb_ctx, fb_index, bpc, sent, landed, left_out, block_no, chk, cfg,
          warned,
          by_target_tx, backrun_lru, sop, ins_log, removed,
          bundle_pool, bundles, curr_bundles_idx, current_flashblock_number,
          current_block_num, returned, exhausted, backrun_bundles, yielded,
          txs_bundles, bundle_idx, commited_transactions, txs_returned,
          txs_exhausted,
          vpc, vin, inner_outcomes, outcomes, sim_calls, callers>>

\* ------------------------------------------------- TxnExecutionResult
Ok == [kind |-> "Ok", a |-> 0, b |-> 0, c |-> 0]

Panicked == [kind |-> "Panic", a |-> 0, b |-> 0, c |-> 0]

TransactionDALimitExceeded ==
    [kind |-> "TransactionDALimitExceeded", a |-> 0, b |-> 0, c |-> 0]

BlockDALimitExceeded(a, b, c) ==
    [kind |-> "BlockDALimitExceeded", a |-> a, b |-> b, c |-> c]

TransactionGasLimitExceeded(a, b, c) ==
    [kind |-> "TransactionGasLimitExceeded", a |-> a, b |-> b, c |-> c]

BlockExecutionTimeLimitExceeded(a, b, c) ==
    [kind |-> "BlockExecutionTimeLimitExceeded", a |-> a, b |-> b, c |-> c]

\* ------------------------------------------------------ ExecutionInfo
\* ExecutionInfo::with_capacity: all cumulative counters start at 0
with_capacity ==
    [cumulative_gas_used |-> 0,
     cumulative_da_bytes_used |-> 0,
     cumulative_execution_time_us |-> 0]

unwrap_or(opt, default) == IF opt = None THEN default ELSE opt

\* is_tx_over_limits as it would be if the block DA check compared the
\* candidate's size alone, without the cumulative DA bytes, with the limit
is_tx_over_limits_da_of_candidate_alone(self, usage, l, checks) ==
    LET total_da_bytes_used ==
            saturating_add(self.cumulative_da_bytes_used, usage.data_size, U64Max)
        tx_da_footprint ==
            saturating_mul(total_da_bytes_used,
                           unwrap_or(l.da_footprint_gas_scalar, 0), U64Max)
        gas_sum ==
            add_op(self.cumulative_gas_used, usage.gas_limit, U64Max, checks)
        total_execution_time_us ==
            saturating_add(self.cumulative_execution_time_us,
                           usage.execution_time_us, U128Max)
    IN  IF l.tx.data # None /\ usage.data_size > l.tx.data
        THEN TransactionDALimitExceeded
        ELSE IF l.block.data # None /\ usage.data_size > l.block.data
        THEN BlockDALimitExceeded(self.cumulative_da_bytes_used,
                                  usage.data_size,
                                  unwrap_or(l.block.data, 0))
        ELSE IF l.da_footprint_gas_scalar # None
                /\ tx_da_footprint > unwrap_or(l.block.da_footprint, l.block.gas)
        THEN BlockDALimitExceeded(total_da_bytes_used, usage.data_size,
                                  tx_da_footprint)
        ELSE IF gas_sum = Overflow
        THEN Panicked
        ELSE IF gas_sum > l.block.gas
        THEN TransactionGasLimitExceeded(self.cumulative_gas_used,
                                         usage.gas_limit, l.block.gas)
        ELSE IF total_execution_time_us > l.block.execution_time_us
        THEN BlockExecutionTimeLimitExceeded(self.cumulative_execution_time_us,
                                             usage.execution_time_us,
                                             l.block.execution_time_us)
        ELSE Ok

\* ExecutionInfo::is_tx_over_limits(&self, usage, limits)
is_tx_over_limits(self, usage, l, checks) ==
    LET total_da_bytes_used ==
            saturating_add(self.cumulative_da_bytes_used, usage.data_size, U64Max)
        tx_da_footprint ==
            saturating_mul(total_da_bytes_used,
                           unwrap_or(l.da_footprint_gas_scalar, 0), U64Max)
        gas_sum ==
            add_op(self.cumulative_gas_used, usage.gas_limit, U64Max, checks)
        total_execution_time_us ==
            saturating_add(self.cumulative_execution_time_us,
                           usage.execution_time_us, U128Max)
    IN  IF l.tx.data # None /\ usage.data_size > l.tx.data
        THEN TransactionDALimitExceeded
        ELSE IF l.block.data # None /\ total_da_bytes_used > l.block.data
        THEN BlockDALimitExceeded(self.cumulative_da_bytes_used,
                                  usage.data_size,
                                  unwrap_or(l.block.data, 0))
        ELSE IF l.da_footprint_gas_scalar # None
                /\ tx_da_footprint > unwrap_or(l.block.da_footprint, l.block.gas)
        THEN BlockDALimitExceeded(total_da_bytes_used, usage.data_size,
                                  tx_da_footprint)
        ELSE IF gas_sum = Overflow
        THEN Panicked
        ELSE IF gas_sum > l.block.gas
        THEN TransactionGasLimitExceeded(self.cumulative_gas_used,
                                         usage.gas_limit, l.block.gas)
        ELSE IF total_execution_time_us > l.block.execution_time_us
        THEN BlockExecutionTimeLimitExceeded(self.cumulative_execution_time_us,
                                             usage.execution_time_us,
                                             l.block.execution_time_us)
        ELSE Ok

NoUsage == [data_size |-> 0, gas_limit |-> 0, execution_time_us |-> 0]

\* the limit checker at rest: fresh counters, gas and time ceilings only
LimitIdle ==
    /\ info = with_capacity
    /\ limits = [block |-> [gas |-> 1000, data |-> None, da_footprint |-> None,
                            execution_time_us |-> 200000],
                 tx |-> [data |-> None],
                 da_footprint_gas_scalar |-> None]
    /\ cand = NoUsage
    /\ res = Ok
    /\ pc = "idle"

\* ------------------------------------------------- backrun bundle store
\* BackrunBundleStore::new(buffer_size): capacity of the eviction queue
StoreCapacity == 2
\* number of distinct target transactions
NumTargets == 3
\* successful inserts followed in one run
MaxInserts == 4

Targets == 1 .. NumTargets

\* ParsedBundle::txs of the bundles submitted: no transaction, a target
\* alone, a target with two backruns (hashes 11 and 12), a bundle that
\* repeats its target, and for every target a bundle with one backrun
\* (hash 11)
ParsedBundles ==
    {<<>>, <<1>>, <<1, 11, 12>>, <<1, 1>>} \cup {<<t, 11>> : t \in Targets}

\* Bundle::txs of submissions that ParsedBundle::try_from rejects: 0 stands
\* for bytes that do not decode to a signed transaction
UnparsedBundles == {<<0>>, <<1, 0>>}

\* no entry for a target: a stored entry holds at least one backrun list
NoBundles == <<>>

NoCall == [op |-> "none", bundle |-> <<>>, target |-> 0, ok |-> TRUE,
           result |-> NoBundles, code |-> "none"]

\* BackrunBundleStore::new: empty map, empty queue
StoreIdle ==
    /\ by_target_tx = [t \in Targets |-> NoBundles]
    /\ backrun_lru = <<>>
    /\ sop = NoCall
    /\ ins_log = <<>>
    /\ removed = {}

\* ------------------------------------------------------ bundle iterators
\* bundles in the pool
MaxBundles == 3
\* largest flashblock index of a session
MaxFlashblock == 4

\* block numbers of the sessions
BlockNumbers == {5, 6}

\* AcceptedBundle: target block (0: none), inclusive flashblock range (None:
\* bound not set); the bundle at position p of the pool holds transaction p
BundleKinds ==
    [block_number : {0, 5},
     flashblock_number_min : {None, 1},
     flashblock_number_max : {None, 3}]

BundlePools ==
    {[p \in 1 .. MaxBundles |->
        [block_number |-> k[p].block_number,
         flashblock_number_min |-> k[p].flashblock_number_min,
         flashblock_number_max |-> k[p].flashblock_number_max,
         txs |-> {p}]] : k \in [1 .. MaxBundles -> BundleKinds]}

\* BestFlashblocksBundles::new with no bundle in the pool
IterIdle ==
    /\ bundle_pool = <<>>
    /\ bundles = <<>>
    /\ curr_bundles_idx = 0
    /\ current_flashblock_number = 0
    /\ current_block_num = 0
    /\ returned = <<>>
    /\ exhausted = FALSE
    /\ backrun_bundles = {}
    /\ yielded = {}

\* BestFlashblocksTxs::new
TxsIdle ==
    /\ txs_bundles = <<>>
    /\ bundle_idx = 0
    /\ commited_transactions = {}
    /\ txs_returned = <<>>
    /\ txs_exhausted = FALSE

BundleIdle == StoreIdle /\ IterIdle /\ TxsIdle

\* ------------------------------------------------- simulating validator
\* SimulatingValidator::new: no validation has been asked for
SimIdle ==
    /\ vpc = "idle"
    /\ vin = <<>>
    /\ inner_outcomes = <<>>
    /\ outcomes = <<>>
    /\ sim_calls = <<>>

\* ------------------------------- backrun bundle store: concurrent callers
\* two RPC handlers run base_sendBackrunBundle at the same time; the block
\* builder calls remove and get, each a single operation on the map, so that
\* get(x) returns at any moment what the map holds for x
Callers == {"rpc_a", "rpc_b"}

\* a caller that is in no call of the store
NoCaller == [pc |-> "idle", bundle |-> <<>>, full |-> FALSE, popped |-> 0]

ConcIdle == callers = [c \in Callers |-> NoCaller]

\* ResourceMetering::new(enabled, buffer_size): capacity of the eviction queue
Capacity == 2
\* number of distinct transaction hashes
NumHashes == 3
\* number of shards of the DashMap; each shard has its own read-write lock
NumShards == 2

Hashes == 1 .. NumHashes

\* ------------------------------------------- execution-time extension
\* BaseFlashblocksCtx::new(execution_time_per_batch_us, enforce_limits)
BaseFlashblocksCtx_new(execution_time_per_batch_us, enforce_limits) ==
    [target_execution_time_us |-> execution_time_per_batch_us,
     execution_time_per_batch_us |-> execution_time_per_batch_us,
     enforce_limits |-> enforce_limits]

\* next as it would be if it copied the context without a new target
BaseFlashblocksCtx_next_keeps_target(self, cumulative_execution_time_us, checks) ==
    self

\* BaseFlashblocksCtx::next(self, cumulative_execution_time_us); the target
\* is Overflow when the `+` panics
BaseFlashblocksCtx_next(self, cumulative_execution_time_us, checks) ==
    [self EXCEPT !.target_execution_time_us =
        add_op(cumulative_execution_time_us,
               self.execution_time_per_batch_us, U128Max, checks)]

\* the execution state as it would be if a new block took over the state of
\* the block before it
BaseExecutionState_carried_over == [cumulative_execution_time_us |-> base]

\* BaseExecutionState::default, the `extra` of ExecutionInfo::with_capacity
BaseExecutionState_default == [cumulative_execution_time_us |-> 0]

\* the check_tx result that stands for "no check made yet"
NoCheck ==
    [ok |-> TRUE, tx_hash |-> 0, cumulative_us |-> 0, tx_us |-> 0,
     limit_us |-> 0, tx_gas |-> 0, remaining_gas |-> 0]

\* the transactions of the tests: hashes 1 .. MaxTxs, sent in this order
MaxTxs == 2
\* blocks built in one run
MaxBlocks == 2

NotLanded == [block |-> 0, fb |-> 0]

\* the builder at rest, before any block
BuilderIdle ==
    /\ base = 0
    /\ fb_ctx = BaseFlashblocksCtx_new(0, FALSE)
    /\ fb_index = 0
    /\ bpc = "idle"
    /\ sent = 0
    /\ landed = [h \in Hashes |-> NotLanded]
    /\ left_out = {}
    /\ block_no = 0
    /\ chk = NoCheck
    /\ cfg = [per_batch_us |-> 0, enforce |-> FALSE]
    /\ warned = 0

\* ------------------------------------------------ resource metering cache

\* MeterBundleResponse::total_execution_time_us pushed over RPC
Measurements == {60000, 120000}

\* pushes followed since the last clear
MaxPushes == Capacity + 1

Shard(tx) == tx % NumShards

NoWriter == [tx |-> 0, m |-> 0]

NoGet == [tx |-> 0, outcome |-> "none", value |-> None, incremented |-> {}]

\* ConcurrentQueue::is_full
is_full(q) == Len(q) = Capacity

\* lines 37-45 of insert: the hash popped from a full queue, or None
to_remove(q) == IF is_full(q) /\ Len(q) > 0 THEN Head(q) ELSE None

\* the queue after lines 37-45 of insert
lru_after_insert(q) == IF is_full(q) /\ Len(q) > 0 THEN Tail(q) ELSE q

\* DashMap::remove of the popped hash (lines 47-49 of insert)
map_after_evict(map, q) ==
    IF to_remove(q) # None
    THEN [map EXCEPT ![to_remove(q)] = None]
    ELSE map

\* a writer holds the write lock of the shard of tx
Locked(tx) == writer # NoWriter /\ Shard(writer.tx) = Shard(tx)

\* get as it would be without the enabled check of its first line
get_outcome_skips_enabled(tx) ==
    IF Locked(tx) THEN "Locked"
    ELSE IF by_tx_hash[tx] # None THEN "Present"
    ELSE "Absent"

\* ResourceMetering::get: the outcome of try_get, after the enabled check
get_outcome(tx) ==
    IF ~enabled THEN "Disabled"
    ELSE IF Locked(tx) THEN "Locked"
    ELSE IF by_tx_hash[tx] # None THEN "Present"
    ELSE "Absent"

\* get as it would be if it returned the stored measurement whatever the
\* enabled flag is
ResourceMetering_get_ignores_enabled(tx) == by_tx_hash[tx]

\* ResourceMetering::get: the measurement returned, None for no data
ResourceMetering_get(tx) ==
    IF get_outcome(tx) = "Present" THEN by_tx_hash[tx] ELSE None

\* get as it would be if a locked shard were counted as an unknown
\* transaction
get_increments_locked_as_unknown(tx) ==
    IF get_outcome(tx) = "Present" THEN {"metering_known_transaction"}
    ELSE IF get_outcome(tx) \in {"Absent", "Locked"}
    THEN {"metering_unknown_transaction"}
    ELSE {}

\* ResourceMetering::get: the counters of OpRBuilderMetrics the call
\* increments, none on the early return of a disabled cache
get_increments(tx) ==
    IF get_outcome(tx) = "Present" THEN {"metering_known_transaction"}
    ELSE IF get_outcome(tx) = "Absent" THEN {"metering_unknown_transaction"}
    ELSE IF get_outcome(tx) = "Locked" THEN {"metering_locked_transaction"}
    ELSE {}

\* ResourceMetering::new: empty map, empty queue
CacheIdle ==
    /\ enabled = FALSE
    /\ by_tx_hash = [h \in Hashes |-> None]
    /\ lru = <<>>
    /\ writer = NoWriter
    /\ got = NoGet
    /\ push_log = <<>>
    /\ evicted = {}
    /\ cleared = FALSE

CacheInit ==
    /\ overflow_checks \in BOOLEAN
    /\ LimitIdle
    /\ SimIdle
    /\ ConcIdle
    /\ enabled \in BOOLEAN
    /\ by_tx_hash = [h \in Hashes |-> None]
    /\ lru = <<>>
    /\ writer = NoWriter
    /\ got = NoGet
    /\ push_log = <<>>
    /\ evicted = {}
    /\ cleared = FALSE
    /\ BuilderIdle
    /\ BundleIdle

\* ResourceMetering::insert, lines 37-49 and the start of line 51: evict the
\* oldest hash when the queue is full, then take the write lock of the shard
InsertBegin(tx, m) ==
    /\ writer = NoWriter
    /\ Len(push_log) < MaxPushes
    /\ lru' = lru_after_insert(lru)
    /\ by_tx_hash' = map_after_evict(by_tx_hash, lru)
    /\ evicted' = IF to_remove(lru) # None
                  THEN evicted \cup {to_remove(lru)} ELSE evicted
    /\ writer' = [tx |-> tx, m |-> m]
    /\ got' = NoGet
    /\ UNCHANGED <<overflow_checks, sim_vars, callers, bundle_vars, limit_vars, builder_vars, enabled, push_log, cleared>>

\* ResourceMetering::insert, line 51: store the measurement, release the lock
InsertEnd ==
    /\ writer # NoWriter
    /\ by_tx_hash' = [by_tx_hash EXCEPT ![writer.tx] = writer.m]
    /\ push_log' = Append(push_log,
                          [tx |-> writer.tx, m |-> writer.m, enabled |-> enabled])
    /\ evicted' = evicted \ {writer.tx}
    /\ writer' = NoWriter
    /\ got' = NoGet
    /\ UNCHANGED <<overflow_checks, sim_vars, callers, bundle_vars, limit_vars, builder_vars, enabled, lru, cleared>>

\* ResourceMetering::clear: drops the map's entries, the queue is not touched
Clear ==
    /\ writer = NoWriter
    /\ by_tx_hash' = [h \in Hashes |-> None]
    /\ push_log' = <<>>
    /\ evicted' = {}
    /\ cleared' = TRUE
    /\ got' = NoGet
    /\ UNCHANGED <<overflow_checks, sim_vars, callers, bundle_vars, limit_vars, builder_vars, enabled, lru, writer>>

\* ResourceMetering::set_enabled
SetEnabled(b) ==
    /\ enabled # b
    /\ enabled' = b
    /\ got' = NoGet
    /\ UNCHANGED <<overflow_checks, sim_vars, callers, bundle_vars, limit_vars, builder_vars, by_tx_hash, lru, writer,
                   push_log, evicted, cleared>>

\* ResourceMetering::get
Get(tx) ==
    /\ got' = [tx |-> tx, outcome |-> get_outcome(tx),
               value |-> ResourceMetering_get(tx),
               incremented |-> get_increments(tx)]
    /\ got' # got
    /\ UNCHANGED <<overflow_checks, sim_vars, callers, bundle_vars, limit_vars, builder_vars, enabled, by_tx_hash, lru,
                   writer, push_log, evicted, cleared>>

CacheNext ==
    \/ \E tx \in Hashes : \E m \in Measurements : InsertBegin(tx, m)
    \/ InsertEnd
    \/ Clear
    \/ \E b \in BOOLEAN : SetEnabled(b)
    \/ \E tx \in Hashes : Get(tx)

SpecCache == CacheInit /\ [][CacheNext]_vars

\* ------------------------------------ metering cache: what the spec states
\* the hashes that have a measurement in the map
Present == {h \in Hashes : by_tx_hash[h] # None}

\* the pushes since the last clear were all of different hashes
DistinctPushes ==
    \A i, j \in 1 .. Len(push_log) :
        i # j => push_log[i].tx # push_log[j].tx

\* positions of the pushes of hash h since the last clear
PushesOf(h) == {i \in 1 .. Len(push_log) : push_log[i].tx = h}

\* the push of hash h that came last
LastPushOf(h) == CHOOSE i \in PushesOf(h) : \A j \in PushesOf(h) : j <= i

\* the measurement last pushed for hash h since the last clear, None if none
LastPushed(h) ==
    IF PushesOf(h) = {} THEN None ELSE push_log[LastPushOf(h)].m

\* C2: with capacity N, after N+1 pushes of distinct hashes and no clear in
\* between, exactly N hashes are present and the missing one is the
\* first-inserted hash, whatever was read with get between the pushes.
C2_EvictsFirstInserted ==
    (writer = NoWriter /\ Len(push_log) = Capacity + 1 /\ DistinctPushes) =>
        /\ Cardinality(Present) = Capacity
        /\ push_log[1].tx \notin Present

\* C3: while disabled, get returns no data for every hash, whatever was pushed
\* before or while disabled; the stored measurements are the last-pushed ones
\* whatever the flag was set to, so once enabled get returns, for every hash
\* pushed and not cleared or evicted, its last-pushed measurement (when no
\* insert holds the shard's write lock).
C3_EnabledFlagOnlyGatesGet ==
    /\ (got # NoGet /\ ~enabled) => got.value = None
    /\ \A h \in Hashes : h \notin evicted => by_tx_hash[h] = LastPushed(h)
    /\ (got # NoGet /\ enabled /\ got.outcome # "Locked"
          /\ got.tx \notin evicted /\ LastPushed(got.tx) # None)
         => got.value = LastPushed(got.tx)

\* C3 witness: get returns a measurement that was pushed while the cache was
\* disabled, after the cache was enabled again
C3_Witness ==
    /\ got # NoGet
    /\ enabled
    /\ PushesOf(got.tx) # {}
    /\ ~push_log[LastPushOf(got.tx)].enabled
    /\ got.value = LastPushed(got.tx)
    /\ got.value # None

\* C21: after clear every get returns no data and the map has size 0, also
\* when the cache was empty already; after a clear a later push(h, m)
\* succeeds and get(h) returns m; and the capacity bound still holds for the
\* pushes that follow a clear: of N+1 distinct hashes pushed the first is
\* evicted and N remain.
C21_ClearThenPush ==
    /\ (cleared /\ push_log = <<>> /\ writer = NoWriter) =>
          /\ Cardinality(Present) = 0
          /\ got # NoGet => got.value = None
    /\ (cleared /\ got # NoGet /\ enabled /\ got.outcome # "Locked"
          /\ got.tx \notin evicted /\ LastPushed(got.tx) # None)
         => got.value = LastPushed(got.tx)
    /\ (cleared /\ writer = NoWriter /\ Len(push_log) = Capacity + 1
          /\ DistinctPushes)
         => /\ Cardinality(Present) = Capacity
            /\ push_log[1].tx \notin Present

\* C32: in every reachable state the eviction queue holds at most capacity
\* hashes and the map holds at most capacity measurements (an eviction
\* removes the hash it pops from the queue from the map too).
C32_CacheBound ==
    /\ Len(lru) <= Capacity
    /\ Cardinality(Present) <= Capacity
    /\ evicted \cap Present = {}

\* C32, the part that holds: the queue is within the capacity (it is empty)
C32_QueueBound == Len(lru) <= Capacity /\ lru = <<>> /\ evicted = {}

\* C32: more measurements than the capacity are in the map
C32_OverCapacity ==
    /\ writer = NoWriter
    /\ Cardinality(Present) = Capacity + 1

\* C27: while enabled a get has three outcomes told apart by the counter it
\* increments: present (the measurement is returned,
\* metering_known_transaction), absent (metering_unknown_transaction) and
\* locked by a concurrent insert (metering_locked_transaction, also when the
\* hash is absent); each enabled call increments exactly one of the three,
\* a disabled call increments none and does not consult the map.
C27_GetOutcomes ==
    got # NoGet =>
        IF ~enabled
        THEN /\ got.incremented = {}
             /\ got.outcome = "Disabled"
             /\ got.value = None
        ELSE /\ Cardinality(got.incremented) = 1
             /\ got.incremented \subseteq
                  {"metering_known_transaction", "metering_unknown_transaction",
                   "metering_locked_transaction"}
             /\ (writer # NoWriter /\ Shard(writer.tx) = Shard(got.tx))
                  => /\ got.incremented = {"metering_locked_transaction"}
                     /\ got.value = None
             /\ (writer = NoWriter \/ Shard(writer.tx) # Shard(got.tx))
                  => IF by_tx_hash[got.tx] # None
                     THEN /\ got.incremented = {"metering_known_transaction"}
                          /\ got.value = by_tx_hash[got.tx]
                     ELSE /\ got.incremented = {"metering_unknown_transaction"}
                          /\ got.value = None

\* C27 witness: a get of a stored hash met the write lock of a concurrent
\* insert of another hash of the same shard and was counted as locked
C27_Witness ==
    /\ got # NoGet
    /\ enabled
    /\ writer # NoWriter
    /\ writer.tx # got.tx
    /\ by_tx_hash[got.tx] # None
    /\ got.incremented = {"metering_locked_transaction"}

\* ----------------------------------- execution-time extension: check, record
\* from_metering as it would be if a missing measurement counted as the
\* largest time instead of 0
from_metering_unknown_is_max(tx_hash) ==
    unwrap_or(ResourceMetering_get(tx_hash), U128Max)

\* BaseTxUsage::from_metering: the measured time, 0 when get has no data
from_metering(tx_hash) ==
    unwrap_or(ResourceMetering_get(tx_hash), 0)

\* no insert of hash h is between its two steps
NoPushOf(h) == writer = NoWriter \/ writer.tx # h

\* C39: when metering is enabled and a measurement t has been pushed for
\* hash h and not cleared or evicted, from_metering(h) returns t in every
\* interleaving with concurrent pushes of other hashes (never 0).
C39_NeverLostToContention ==
    \A h \in Hashes :
        (enabled /\ NoPushOf(h) /\ h \notin evicted /\ LastPushed(h) # None)
            => from_metering(h) = LastPushed(h)

\* C39, the part that holds: with no insert holding the write lock of the
\* shard of h, from_metering(h) is the measurement last pushed for h
C39_ReturnedWhenUnlocked ==
    \A h \in Hashes :
        (enabled /\ ~Locked(h) /\ h \notin evicted /\ LastPushed(h) # None)
            => from_metering(h) = LastPushed(h)

\* C39: a stored measurement is read as 0 while an insert of another hash
\* holds the write lock of the shard
C39_LostToLock ==
    \E h \in Hashes :
        /\ enabled
        /\ writer # NoWriter /\ writer.tx # h
        /\ h \notin evicted
        /\ by_tx_hash[h] = LastPushed(h)
        /\ LastPushed(h) > 0
        /\ from_metering(h) = 0

\* check_tx as it would be with `>=` for `>`: a total equal to the limit is
\* rejected
check_tx_rejects_at_limit(self, tx_hash, execution_time_limit_us, tx_gas, cumulative_gas_used, block_gas_limit) ==
    LET usage == unwrap_or(ResourceMetering_get(tx_hash), 0)
        total == saturating_add(self, usage, U128Max)
    IN  IF total >= execution_time_limit_us
        THEN [ok |-> FALSE, tx_hash |-> tx_hash, cumulative_us |-> self,
              tx_us |-> usage, limit_us |-> execution_time_limit_us,
              tx_gas |-> tx_gas,
              remaining_gas |-> saturating_sub(block_gas_limit,
                                               cumulative_gas_used)]
        ELSE [ok |-> TRUE, tx_hash |-> tx_hash, cumulative_us |-> self,
              tx_us |-> usage, limit_us |-> execution_time_limit_us,
              tx_gas |-> tx_gas, remaining_gas |-> 0]

\* check_tx as it would be if the rejection carried the sum of the cumulative
\* time and the candidate's time, and the gas left without the clamp at 0
check_tx_reports_total(self, tx_hash, execution_time_limit_us, tx_gas, cumulative_gas_used, block_gas_limit) ==
    LET usage == unwrap_or(ResourceMetering_get(tx_hash), 0)
        total == saturating_add(self, usage, U128Max)
    IN  IF total > execution_time_limit_us
        THEN [ok |-> FALSE, tx_hash |-> tx_hash, cumulative_us |-> total,
              tx_us |-> usage, limit_us |-> execution_time_limit_us,
              tx_gas |-> tx_gas,
              remaining_gas |-> saturating_sub(block_gas_limit,
                                               cumulative_gas_used)]
        ELSE [ok |-> TRUE, tx_hash |-> tx_hash, cumulative_us |-> self,
              tx_us |-> usage, limit_us |-> execution_time_limit_us,
              tx_gas |-> tx_gas, remaining_gas |-> 0]

\* BaseExecutionState::check_tx
check_tx(self, tx_hash, execution_time_limit_us, tx_gas, cumulative_gas_used, block_gas_limit) ==
    LET usage == from_metering(tx_hash)
        total == saturating_add(self, usage, U128Max)
    IN  IF total > execution_time_limit_us
        THEN [ok |-> FALSE, tx_hash |-> tx_hash, cumulative_us |-> self,
              tx_us |-> usage, limit_us |-> execution_time_limit_us,
              tx_gas |-> tx_gas,
              remaining_gas |-> saturating_sub(block_gas_limit,
                                               cumulative_gas_used)]
        ELSE [ok |-> TRUE, tx_hash |-> tx_hash, cumulative_us |-> self,
              tx_us |-> usage, limit_us |-> execution_time_limit_us,
              tx_gas |-> tx_gas, remaining_gas |-> 0]

\* BaseLimitExceeded::log_and_record: TRUE when the warning is emitted and
\* execution_time_limit_exceeded is incremented, FALSE on the early return
log_and_record(self) == ~(self.cumulative_us > self.limit_us)

\* record_tx as it would be if it added the usage twice
record_tx_adds_twice(self, usage, checks) ==
    add_op(self, usage + usage, U128Max, checks)

\* BaseExecutionState::record_tx: Overflow when the `+=` panics
record_tx(self, usage, checks) == add_op(self, usage, U128Max, checks)

\* ------------------------------------------- flashblocks payload builder
\* chain_block_time of the tests, in microseconds (EXECUTION_LIMIT_MS * 1000)
ChainBlockTimeUs == 200000

\* flashblocks.flashblocks_block_time of the tests, in microseconds
BatchTimes == {ChainBlockTimeUs, ChainBlockTimeUs \div 2}

\* measured execution times pushed over RPC: those of the tests, one batch
\* quota, and the largest u128
MeteredTimes ==
    {60000, ChainBlockTimeUs \div 2, 120000, 150000, 180000, U128Max}

\* gas limit of the transactions the tests send
TxGas == 21

\* flashblocks that carry pool transactions in one block
FlashblocksPerBlock == ChainBlockTimeUs \div cfg.per_batch_us

\* transactions in the pool: sent and in no block yet
Pending == {h \in 1 .. sent : landed[h] = NotLanded}

\* transactions left out of flashblock i of the block being built
LeftOutOf(i) == {h \in Hashes : <<h, i>> \in left_out}

\* the pool's best transactions of the open flashblock, in arrival order
Candidates == Pending \ LeftOutOf(fb_index)

BestTx == CHOOSE h \in Candidates : \A g \in Candidates : h <= g

BuilderInit ==
    /\ overflow_checks \in BOOLEAN
    /\ LimitIdle
    /\ SimIdle
    /\ ConcIdle
    /\ CacheIdle
    /\ BundleIdle
    /\ base = 0
    /\ fb_ctx = BaseFlashblocksCtx_new(0, FALSE)
    /\ fb_index = 0
    /\ bpc = "idle"
    /\ sent = 0
    /\ landed = [h \in Hashes |-> NotLanded]
    /\ left_out = {}
    /\ block_no = 0
    /\ chk = NoCheck
    /\ cfg \in [per_batch_us : BatchTimes, enforce : BOOLEAN]
    /\ warned = 0

\* a test sends a transaction to the pool, between two blocks
SendTx ==
    /\ bpc = "idle"
    /\ sent < MaxTxs
    /\ sent' = sent + 1
    /\ UNCHANGED <<overflow_checks, sim_vars, callers, bundle_vars, limit_vars, cache_vars, base, fb_ctx,
                   fb_index, bpc, landed, left_out, block_no, chk, cfg, warned>>

\* base_setMeteringInformation for a transaction of the pool, between two
\* blocks: the whole of ResourceMetering::insert
MeterTx(tx, m) ==
    /\ bpc = "idle"
    /\ tx \in Pending
    /\ by_tx_hash[tx] # m
    /\ lru' = lru_after_insert(lru)
    /\ by_tx_hash' = [map_after_evict(by_tx_hash, lru) EXCEPT ![tx] = m]
    /\ UNCHANGED <<overflow_checks, sim_vars, callers, bundle_vars, limit_vars, builder_vars, enabled, writer,
                   got, push_log, evicted, cleared>>

\* base_setMeteringEnabled, between two blocks
ToggleMetering(b) ==
    /\ bpc = "idle"
    /\ enabled # b
    /\ enabled' = b
    /\ UNCHANGED <<overflow_checks, sim_vars, callers, bundle_vars, limit_vars, builder_vars, by_tx_hash, lru,
                   writer, got, push_log, evicted, cleared>>

\* a new block begins: fresh cumulative state, first batch target = quota
StartBlock ==
    /\ bpc = "idle"
    /\ block_no < MaxBlocks
    /\ bpc' = "building"
    /\ base' = BaseExecutionState_default.cumulative_execution_time_us
    /\ info' = with_capacity
    /\ fb_ctx' = BaseFlashblocksCtx_new(cfg.per_batch_us, cfg.enforce)
    /\ fb_index' = 1
    /\ left_out' = {}
    /\ chk' = NoCheck
    /\ warned' = 0
    /\ UNCHANGED <<overflow_checks, sim_vars, callers, bundle_vars, limits, cand, res, pc, cache_vars, sent,
                   landed, block_no, cfg>>

\* the builder takes the best transaction of the pool: check_tx against the
\* target of the open batch, then record_tx and inclusion, or exclusion from
\* this flashblock when the limits are enforced
ConsiderTx ==
    /\ bpc = "building"
    /\ Candidates # {}
    /\ LET tx == BestTx
           r == check_tx(base, tx, fb_ctx.target_execution_time_us, TxGas,
                         info.cumulative_gas_used, limits.block.gas)
           recorded == record_tx(base, r.tx_us, overflow_checks)
       IN  /\ chk' = r
           /\ warned' = IF ~r.ok /\ log_and_record(r) THEN warned + 1 ELSE warned
           /\ IF ~r.ok /\ fb_ctx.enforce_limits
              THEN /\ left_out' = left_out \cup {<<tx, fb_index>>}
                   /\ UNCHANGED <<base, info, landed, bpc>>
              ELSE IF recorded = Overflow
              THEN /\ bpc' = "panicked"
                   /\ UNCHANGED <<base, info, landed, left_out>>
              ELSE /\ base' = recorded
                   /\ info' = [info EXCEPT !.cumulative_gas_used =
                                   saturating_add(@, TxGas, U64Max)]
                   /\ landed' = [landed EXCEPT ![tx] =
                                   [block |-> block_no + 1, fb |-> fb_index]]
                   /\ UNCHANGED <<left_out, bpc>>
    /\ UNCHANGED <<overflow_checks, sim_vars, callers, bundle_vars, limits, cand, res, pc, cache_vars, fb_ctx,
                   fb_index, sent, block_no, cfg>>

\* the open flashblock closes and the next one opens: the batch context
\* advances once, anchored at the cumulative time consumed so far
CloseFlashblock ==
    /\ bpc = "building"
    /\ Candidates = {}
    /\ fb_index < FlashblocksPerBlock
    /\ LET advanced == BaseFlashblocksCtx_next(fb_ctx, base, overflow_checks)
       IN  IF advanced.target_execution_time_us = Overflow
           THEN /\ bpc' = "panicked"
                /\ UNCHANGED <<fb_ctx, fb_index>>
           ELSE /\ fb_ctx' = advanced
                /\ fb_index' = fb_index + 1
                /\ UNCHANGED bpc
    /\ UNCHANGED <<overflow_checks, sim_vars, callers, bundle_vars, limit_vars, cache_vars, base, sent, landed,
                   left_out, block_no, chk, cfg, warned>>

\* the last flashblock closes: the block is sealed
SealBlock ==
    /\ bpc = "building"
    /\ Candidates = {}
    /\ fb_index = FlashblocksPerBlock
    /\ bpc' = "idle"
    /\ block_no' = block_no + 1
    /\ UNCHANGED <<overflow_checks, sim_vars, callers, bundle_vars, limit_vars, cache_vars, base, fb_ctx,
                   fb_index, sent, landed, left_out, chk, cfg, warned>>

BuilderNext ==
    \/ SendTx
    \/ \E tx \in Hashes : \E m \in MeteredTimes : MeterTx(tx, m)
    \/ \E b \in BOOLEAN : ToggleMetering(b)
    \/ StartBlock
    \/ ConsiderTx
    \/ CloseFlashblock
    \/ SealBlock

SpecBuilder == BuilderInit /\ [][BuilderNext]_vars

\* ------------------------------ payload builder: what the spec states
\* the time the cache holds for a transaction, 0 when it holds none
Measured(h) == IF enabled /\ by_tx_hash[h] # None THEN by_tx_hash[h] ELSE 0

\* the builder is about to run check_tx on BestTx
Considering == bpc = "building" /\ Candidates # {}

\* the builder is about to advance the batch context
Advancing ==
    bpc = "building" /\ Candidates = {} /\ fb_index < FlashblocksPerBlock

\* all flashblocks of the block are complete
ReadyToSeal ==
    bpc = "building" /\ Candidates = {} /\ fb_index = FlashblocksPerBlock

\* where a transaction lands when it is included now
Here == [block |-> block_no + 1, fb |-> fb_index]

InBlock(h) == landed[h].block = block_no + 1

\* the transaction was in the pool when the block being built began
PendingAtStart(h) == h <= sent /\ landed[h].block \in {0, block_no + 1}

\* the two transactions of a test were sent, then metered m1 and m2 (None:
\* not metered), then the block was built with the given per-batch quota
TestOfTwo(quota, m1, m2) ==
    /\ ReadyToSeal
    /\ cfg.per_batch_us = quota
    /\ enabled
    /\ sent = 2
    /\ PendingAtStart(1) /\ PendingAtStart(2)
    /\ by_tx_hash[1] = m1 /\ by_tx_hash[2] = m2

\* C4, each check: rejected exactly when cumulative + measured time is
\* strictly over the limit; admitted means recorded and included, rejected
\* under enforcement means excluded
C4_Step ==
    Considering =>
        LET tx == BestTx
            over == base + Measured(tx) > fb_ctx.target_execution_time_us
        IN  /\ chk'.ok = ~over
            /\ ~over => (base' = base + Measured(tx) /\ landed'[tx] = Here)
            /\ (over /\ fb_ctx.enforce_limits)
                 => (base' = base /\ landed'[tx] = NotLanded)

\* C4, the test: limit 200000, two transactions measured at 120000 each
C4_Test ==
    (TestOfTwo(200000, 120000, 120000) /\ cfg.enforce) =>
        /\ landed[1] = Here
        /\ landed[2] = NotLanded
        /\ base = 120000

\* C4: a candidate is rejected exactly when cumulative execution time + its
\* measured time is strictly greater than the limit and admitted otherwise;
\* with a limit of 200000 us and two transactions measured at 120000 us each
\* the first is admitted and recorded (cumulative 120000), the second is
\* rejected and excluded from the block.
C4_ExecutionTimeAdmission == [](C4_Test) /\ [][C4_Step]_vars

\* C4 witness: the test's block is complete, the second transaction rejected
C4_Witness ==
    /\ TestOfTwo(200000, 120000, 120000)
    /\ cfg.enforce
    /\ ~chk.ok
    /\ chk.tx_hash = 2
    /\ landed[1] = Here

\* C5, each check of a transaction without measurement: its time is 0, it is
\* admitted whenever the cumulative time is within the limit, and the
\* cumulative time is unchanged
C5_Step ==
    (Considering /\ by_tx_hash[BestTx] = None) =>
        /\ chk'.tx_us = 0
        /\ base <= fb_ctx.target_execution_time_us
             => (chk'.ok /\ landed'[BestTx] = Here)
        /\ base' = base

\* C5, the test: an unmetered transaction, then one measured at 180000 us
C5_Test ==
    TestOfTwo(200000, None, 180000) =>
        /\ InBlock(1) /\ InBlock(2)
        /\ base = 180000

\* C5: a transaction with no measurement in the cache is given execution
\* time 0: check_tx admits it whenever the cumulative time is within the
\* limit, recording it leaves the cumulative time unchanged, and a later
\* metered transaction is checked against the metered time only (unmetered,
\* then 180000 us: both included under a 200000 us limit).
C5_UnmeteredCountsZero == [](C5_Test) /\ [][C5_Step]_vars

\* C5 witness: the test's block is complete with both transactions in it
C5_Witness ==
    /\ TestOfTwo(200000, None, 180000)
    /\ InBlock(1) /\ InBlock(2)
    /\ chk.tx_hash = 2 /\ chk.ok /\ chk.tx_us = 180000

\* limits check_tx is asked about while metering is disabled
C40_Limits == {0, 1, ChainBlockTimeUs, U128Max}

\* C40, each check while metering is disabled: the time is 0, the
\* transaction is admitted, recorded and included, nothing is logged
C40_Step ==
    (Considering /\ ~enabled) =>
        /\ chk'.ok
        /\ chk'.tx_us = 0
        /\ base' = base
        /\ landed'[BestTx] = Here
        /\ left_out' = left_out
        /\ warned' = warned

\* C40, each state while metering is disabled: from_metering gives 0 for
\* every hash, check_tx at cumulative time 0 admits under every limit, and
\* the block being built has cumulative time 0 and no rejection
C40_State ==
    /\ ~enabled =>
          \A h \in Hashes :
              /\ from_metering(h) = 0
              /\ \A l \in C40_Limits :
                    LET r == check_tx(0, h, l, TxGas, info.cumulative_gas_used,
                                      limits.block.gas)
                    IN  r.ok /\ r.tx_us = 0 /\ record_tx(0, r.tx_us, TRUE) = 0
    /\ (~enabled /\ bpc = "building") =>
          /\ base = 0
          /\ left_out = {}
          /\ warned = 0
          /\ chk # NoCheck => (chk.ok /\ chk.tx_us = 0)

\* C40: while metering is disabled, whatever measurements have been pushed,
\* every transaction gets execution time 0 from from_metering: over any
\* sequence of check_tx and record_tx calls starting from cumulative time 0
\* the cumulative time stays 0 and check_tx never rejects, for every limit.
C40_DisabledNeverRejects == [](C40_State) /\ [][C40_Step]_vars

\* C40 witness: with metering disabled and the limits enforced, two
\* transactions measured at the largest time are both in the block and the
\* cumulative time is 0
C40_Witness ==
    /\ ReadyToSeal
    /\ ~enabled
    /\ cfg.enforce
    /\ sent >= 2
    /\ by_tx_hash[1] = U128Max /\ by_tx_hash[2] = U128Max
    /\ InBlock(1) /\ InBlock(2)
    /\ chk.tx_hash = 2 /\ chk.ok
    /\ base = 0

\* C9, each step: new(Q) has target Q; next(T) has target T + Q and the same
\* quota and enforce flag, so the remaining budget is one quota
C9_Step ==
    /\ (bpc = "idle" /\ bpc' = "building")
         => fb_ctx' = [target_execution_time_us |-> cfg.per_batch_us,
                       execution_time_per_batch_us |-> cfg.per_batch_us,
                       enforce_limits |-> cfg.enforce]
    /\ Advancing
         => /\ fb_ctx'.target_execution_time_us
                 = base + fb_ctx.execution_time_per_batch_us
            /\ fb_ctx'.execution_time_per_batch_us
                 = fb_ctx.execution_time_per_batch_us
            /\ fb_ctx'.enforce_limits = fb_ctx.enforce_limits
            /\ fb_ctx'.target_execution_time_us - base'
                 = fb_ctx.execution_time_per_batch_us

\* C9: BaseFlashblocksCtx::new(Q) has target = Q; for every cumulative time
\* T, next(T) returns a context with target = T + Q and the same quota and
\* enforce flag, whatever the previous target was; after every advance the
\* remaining budget target - T is exactly one quota.
C9_TargetIsCumulativePlusQuota == [][C9_Step]_vars

\* C10, each check under enforcement: a transaction whose measured time would
\* take the cumulative time past the batch target is left out of the open
\* flashblock
C10_Step ==
    (Considering /\ fb_ctx.enforce_limits
       /\ base + Measured(BestTx) > fb_ctx.target_execution_time_us)
      => /\ landed'[BestTx] = NotLanded
         /\ <<BestTx, fb_index>> \in left_out'
         /\ base' = base

\* C10, the test: quota 100000, two transactions of 60000 us each
C10_Test ==
    (TestOfTwo(100000, 60000, 60000) /\ cfg.enforce) =>
        /\ InBlock(1) /\ landed[1].fb = 1
        /\ InBlock(2) /\ landed[2].fb > landed[1].fb

FirstLeftOut(i) == CHOOSE h \in LeftOutOf(i) : \A g \in LeftOutOf(i) : h <= g

\* flashblock i + 1 has considered its first candidate
FirstConsidered(i) ==
    \/ i + 1 < fb_index
    \/ i + 1 = fb_index /\ FirstLeftOut(i) \notin Candidates

\* C10 amended, the later flashblock: the first transaction left out of
\* flashblock i whose measured time is at most the quota is in flashblock i+1
C10_FirstLeftOutIsNext ==
    (bpc = "building" /\ fb_ctx.enforce_limits) =>
        \A i \in 1 .. fb_index :
            (/\ LeftOutOf(i) # {}
             /\ Measured(FirstLeftOut(i)) <= fb_ctx.execution_time_per_batch_us
             /\ FirstConsidered(i))
              => landed[FirstLeftOut(i)] = [block |-> block_no + 1, fb |-> i + 1]

\* C10 amended, no later flashblock: a transaction measured above the quota
\* is in no flashblock of the block being built
C10_OverQuotaFitsNoBatch ==
    (bpc = "building" /\ fb_ctx.enforce_limits) =>
        \A h \in Hashes :
            Measured(h) > fb_ctx.execution_time_per_batch_us => ~InBlock(h)

C11_Step ==
    (bpc = "idle" /\ bpc' = "building") =>
        /\ base' = 0
        /\ info' = with_capacity
        /\ fb_ctx'.target_execution_time_us = cfg.per_batch_us

\* C11, while a block has no transaction yet: nothing is consumed
C11_Fresh ==
    (bpc = "building" /\ \A h \in Hashes : ~InBlock(h)) => base = 0

\* C11, the test: 150000 us in the first block, 150000 us in the second
C11_Test ==
    (/\ ReadyToSeal
     /\ cfg.per_batch_us = 200000
     /\ enabled
     /\ sent = 2
     /\ block_no = 1
     /\ landed[1].block = 1 /\ by_tx_hash[1] = 150000
     /\ PendingAtStart(2) /\ by_tx_hash[2] = 150000)
      => (InBlock(2) /\ base = 150000)

\* C11: the execution-time budget is per block: each new block starts with
\* cumulative execution time 0, so the time consumed in block k never
\* reduces what block k+1 may admit (150000 us is included in each of two
\* consecutive blocks under a 200000 us limit).
C11_BudgetResetsEachBlock == [](C11_Fresh /\ C11_Test) /\ [][C11_Step]_vars

\* C11 witness: the second block is complete under enforcement, the first
\* block took 150000 us and the second holds the second 150000 us transaction
C11_Witness ==
    /\ ReadyToSeal
    /\ cfg = [per_batch_us |-> 200000, enforce |-> TRUE]
    /\ enabled
    /\ block_no = 1
    /\ landed[1].block = 1 /\ by_tx_hash[1] = 150000
    /\ landed[2] = [block |-> 2, fb |-> 1] /\ by_tx_hash[2] = 150000
    /\ chk.ok /\ chk.cumulative_us = 0 /\ chk.tx_us = 150000

\* C20: over the candidates checked within one block, with usage recorded
\* only for admitted candidates (enforcement on), log_and_record emits the
\* warning and increments execution_time_limit_exceeded only for the first
\* candidate rejected for execution time; later rejections emit nothing.
\* Stated for the first batch of the block, where the limit has not moved
\* and every rejection is of a different candidate.
C20_OnlyFirstRejectionIsLogged ==
    (bpc = "building" /\ cfg.enforce /\ fb_index = 1) =>
        warned = IF left_out = {} THEN 0 ELSE 1

\* ------------------------------------------- backrun bundle store: calls
\* insert's first check as it would be if a bundle of one transaction passed
too_short_allows_one(bundle) == Len(bundle) < 1

\* BackrunBundleStore::insert, lines 44-46: fewer than 2 transactions
too_short(bundle) == Len(bundle) < 2

\* Target tx is txs[0], backrun txs are txs[1..]
target_tx_hash(bundle) == Head(bundle)

\* the backrun list as it would be if the whole bundle were stored
backrun_txs_with_target(bundle) == bundle

backrun_txs(bundle) == Tail(bundle)

\* insert, lines 53-62: the target popped from a full queue, or 0 for none
evicted_hash(q) == IF Len(q) = StoreCapacity /\ Len(q) > 0 THEN Head(q) ELSE 0

\* insert, lines 53-65: the queue after the pop and the push of the target
lru_after_push(q, target) ==
    Append(IF evicted_hash(q) # 0 THEN Tail(q) ELSE q, target)

\* insert, lines 53-72: remove the evicted target, then append the backrun
\* list to the target's entry, created empty when absent
map_after_insert(map, q, bundle) ==
    LET target == target_tx_hash(bundle)
        kept == IF evicted_hash(q) # 0
                THEN [map EXCEPT ![evicted_hash(q)] = NoBundles]
                ELSE map
        entry == IF kept[target] = NoBundles THEN <<>> ELSE kept[target]
    IN  [kept EXCEPT ![target] = Append(entry, backrun_txs(bundle))]

\* BackrunBundleStore::get
BackrunBundleStore_get(map, target) == map[target]

\* remove as it would be if it dropped only the newest backrun list
remove_drops_last_list(map, target) ==
    IF map[target] = NoBundles \/ Len(map[target]) = 1
    THEN [map EXCEPT ![target] = NoBundles]
    ELSE [map EXCEPT ![target] = SubSeq(@, 1, Len(@) - 1)]

\* BackrunBundleStore::remove
BackrunBundleStore_remove(map, target) == [map EXCEPT ![target] = NoBundles]

\* BackrunBundleStore::len
BackrunBundleStore_len(map) == Cardinality({t \in Targets : map[t] # NoBundles})

\* send_backrun_bundle, lines 139-160: the error code of the answer, from
\* the result of ParsedBundle::try_from and of BackrunBundleStore::insert
rpc_code(parsed, stored) ==
    IF ~parsed THEN "INVALID_PARAMS_CODE"
    ELSE IF ~stored THEN "INTERNAL_ERROR_CODE"
    ELSE "OK"

\* ParsedBundle::try_from: every transaction of the bundle decodes; a bundle
\* of one transaction parses (create_test_parsed_bundle of a single target)
parses(bundle) == \A i \in 1 .. Len(bundle) : bundle[i] # 0

\* base_sendBackrunBundle, lines 139-148: the bundle does not parse
SendUnparsedBundle(bundle) ==
    /\ ~parses(bundle)
    /\ sop' = [op |-> "send_backrun_bundle", bundle |-> bundle, target |-> 0,
               ok |-> FALSE, result |-> NoBundles,
               code |-> rpc_code(FALSE, FALSE)]
    /\ UNCHANGED <<overflow_checks, sim_vars, callers, limit_vars, cache_vars, builder_vars, iter_vars,
                   txs_vars,
                   by_target_tx, backrun_lru, ins_log, removed>>

\* base_sendBackrunBundle -> BackrunBundleStore::insert
StoreInsert(bundle) ==
    /\ Len(ins_log) < MaxInserts
    /\ parses(bundle)
    /\ IF too_short(bundle)
       THEN /\ sop' = [op |-> "insert", bundle |-> bundle, target |-> 0,
                       ok |-> FALSE, result |-> NoBundles,
                       code |-> rpc_code(TRUE, FALSE)]
            /\ UNCHANGED <<by_target_tx, backrun_lru, ins_log>>
       ELSE /\ by_target_tx' = map_after_insert(by_target_tx, backrun_lru, bundle)
            /\ backrun_lru' = lru_after_push(backrun_lru, target_tx_hash(bundle))
            /\ sop' = [op |-> "insert", bundle |-> bundle,
                       target |-> target_tx_hash(bundle), ok |-> TRUE,
                       result |-> NoBundles, code |-> rpc_code(TRUE, TRUE)]
            /\ ins_log' = Append(ins_log, bundle)
    /\ UNCHANGED <<overflow_checks, sim_vars, callers, limit_vars, cache_vars, builder_vars, iter_vars,
                   txs_vars, removed>>

\* BackrunBundleStore::remove
StoreRemove(target) ==
    /\ by_target_tx' = BackrunBundleStore_remove(by_target_tx, target)
    /\ sop' = [op |-> "remove", bundle |-> <<>>, target |-> target, ok |-> TRUE,
               result |-> by_target_tx[target], code |-> "none"]
    /\ removed' = removed \cup {target}
    /\ UNCHANGED <<overflow_checks, sim_vars, callers, limit_vars, cache_vars, builder_vars, iter_vars,
                   txs_vars,
                   backrun_lru, ins_log>>

\* BackrunBundleStore::get
StoreGet(target) ==
    /\ sop' = [op |-> "get", bundle |-> <<>>, target |-> target, ok |-> TRUE,
               result |-> BackrunBundleStore_get(by_target_tx, target),
               code |-> "none"]
    /\ UNCHANGED <<overflow_checks, sim_vars, callers, limit_vars, cache_vars, builder_vars, iter_vars,
                   txs_vars,
                   by_target_tx, backrun_lru, ins_log, removed>>

StoreInit ==
    /\ overflow_checks \in BOOLEAN
    /\ LimitIdle
    /\ SimIdle
    /\ ConcIdle
    /\ CacheIdle
    /\ BuilderIdle
    /\ StoreIdle
    /\ IterIdle
    /\ TxsIdle

StoreNext ==
    \/ \E bundle \in UnparsedBundles : SendUnparsedBundle(bundle)
    \/ \E bundle \in ParsedBundles : StoreInsert(bundle)
    \/ \E target \in Targets : StoreRemove(target)
    \/ \E target \in Targets : StoreGet(target)

SpecStore == StoreInit /\ [][StoreNext]_vars

\* --------------------------- backrun bundle store: concurrent callers
\* backrun lists held by the map and inserts in progress, followed in one run
MaxConcLists == 3

RECURSIVE ListsUpTo(_, _)
ListsUpTo(map, t) == IF t = 0 THEN 0 ELSE Len(map[t]) + ListsUpTo(map, t - 1)

\* the bundles submitted at the same time: a target alone, two bundles with
\* different backruns for one target, and a bundle for another target
ConcBundles == {<<1>>, <<1, 11>>, <<1, 12>>, <<2, 11>>}

InFlight == {c \in Callers : callers[c].pc \notin {"idle", "ok", "err"}}

\* lines 68-72 as they would be if the entry were replaced by the new list
map_after_store_replaces(map, bundle) ==
    [map EXCEPT ![target_tx_hash(bundle)] = <<backrun_txs(bundle)>>]

\* lines 68-72: entry(target).or_insert_with(Vec::new).push(backrun_txs),
\* one operation under the write lock of the target's shard
map_after_store(map, bundle) ==
    LET target == target_tx_hash(bundle)
        entry == IF map[target] = NoBundles THEN <<>> ELSE map[target]
    IN  [map EXCEPT ![target] = Append(entry, backrun_txs(bundle))]

\* insert, lines 44-50: the length check, then target and backrun list
ConcInsertBegin(c, bundle) ==
    /\ callers[c].pc = "idle"
    /\ ListsUpTo(by_target_tx, NumTargets) + Cardinality(InFlight) < MaxConcLists
    /\ callers' = [callers EXCEPT ![c] =
                     [pc |-> IF too_short(bundle) THEN "err" ELSE "is_full",
                      bundle |-> bundle, full |-> FALSE, popped |-> 0]]
    /\ UNCHANGED sop
    /\ UNCHANGED <<overflow_checks, limit_vars, cache_vars, builder_vars, sim_vars,
                   by_target_tx, backrun_lru, ins_log, removed, iter_vars, txs_vars>>

\* insert, line 53: lru.is_full()
ConcIsFull(c) ==
    /\ callers[c].pc = "is_full"
    /\ LET full == Len(backrun_lru) = StoreCapacity
       IN  callers' = [callers EXCEPT ![c].full = full,
                                      ![c].pc = IF full THEN "pop" ELSE "push"]
    /\ UNCHANGED sop
    /\ UNCHANGED <<overflow_checks, limit_vars, cache_vars, builder_vars, sim_vars,
                   by_target_tx, backrun_lru, ins_log, removed, iter_vars, txs_vars>>

\* insert, line 54: lru.pop(), an error when the queue is empty by now
ConcPop(c) ==
    /\ callers[c].pc = "pop"
    /\ IF backrun_lru # <<>>
       THEN /\ backrun_lru' = Tail(backrun_lru)
            /\ callers' = [callers EXCEPT ![c].popped = Head(backrun_lru),
                                          ![c].pc = "evict"]
       ELSE /\ callers' = [callers EXCEPT ![c].pc = "push"]
            /\ UNCHANGED backrun_lru
    /\ UNCHANGED <<overflow_checks, limit_vars, cache_vars, builder_vars, sim_vars,
                   by_target_tx, ins_log, removed, iter_vars, txs_vars>>
    /\ UNCHANGED sop

\* insert, line 55: by_target_tx.remove(&evicted_hash)
ConcEvict(c) ==
    /\ callers[c].pc = "evict"
    /\ by_target_tx' = BackrunBundleStore_remove(by_target_tx, callers[c].popped)
    /\ callers' = [callers EXCEPT ![c].pc = "push"]
    /\ UNCHANGED <<overflow_checks, limit_vars, cache_vars, builder_vars, sim_vars,
                   backrun_lru, ins_log, removed, iter_vars, txs_vars>>
    /\ UNCHANGED sop

\* insert, line 65: lru.push(target), its error dropped when the queue is full
ConcPush(c) ==
    /\ callers[c].pc = "push"
    /\ backrun_lru' = IF Len(backrun_lru) < StoreCapacity
                      THEN Append(backrun_lru, target_tx_hash(callers[c].bundle))
                      ELSE backrun_lru
    /\ callers' = [callers EXCEPT ![c].pc = "store"]
    /\ UNCHANGED <<overflow_checks, limit_vars, cache_vars, builder_vars, sim_vars,
                   by_target_tx, ins_log, removed, iter_vars, txs_vars>>
    /\ UNCHANGED sop

\* insert, lines 68-81: the list is stored and the call returns Ok
ConcStore(c) ==
    /\ callers[c].pc = "store"
    /\ by_target_tx' = map_after_store(by_target_tx, callers[c].bundle)
    /\ callers' = [callers EXCEPT ![c].pc = "ok"]
    /\ UNCHANGED <<overflow_checks, limit_vars, cache_vars, builder_vars, sim_vars,
                   backrun_lru, ins_log, removed, iter_vars, txs_vars>>
    /\ UNCHANGED sop

\* the RPC handler has answered and takes the next request
ConcReturn(c) ==
    /\ callers[c].pc \in {"ok", "err"}
    /\ callers' = [callers EXCEPT ![c] = NoCaller]
    /\ UNCHANGED sop
    /\ UNCHANGED <<overflow_checks, limit_vars, cache_vars, builder_vars, sim_vars,
                   by_target_tx, backrun_lru, ins_log, removed, iter_vars, txs_vars>>

\* BackrunBundleStore::remove, called by the block builder
ConcRemove(target) ==
    /\ by_target_tx' = BackrunBundleStore_remove(by_target_tx, target)
    /\ UNCHANGED sop
    /\ UNCHANGED <<overflow_checks, limit_vars, cache_vars, builder_vars, sim_vars,
                   backrun_lru, ins_log, removed, iter_vars, txs_vars, callers>>

ConcInit ==
    /\ overflow_checks = FALSE
    /\ LimitIdle
    /\ SimIdle
    /\ ConcIdle
    /\ CacheIdle
    /\ BuilderIdle
    /\ BundleIdle

ConcNext ==
    \/ \E c \in Callers : \E bundle \in ConcBundles : ConcInsertBegin(c, bundle)
    \/ \E c \in Callers : ConcIsFull(c)
    \/ \E c \in Callers : ConcPop(c)
    \/ \E c \in Callers : ConcEvict(c)
    \/ \E c \in Callers : ConcPush(c)
    \/ \E c \in Callers : ConcStore(c)
    \/ \E c \in Callers : ConcReturn(c)
    \/ \E target \in Targets : ConcRemove(target)

SpecConc == ConcInit /\ [][ConcNext]_vars

\* ------------------------------- backrun bundle store: what the spec states
\* the backrun lists submitted for a target, in submission order
Submitted(target) ==
    LET F[i \in 0 .. Len(ins_log)] ==
            IF i = 0 THEN <<>>
            ELSE IF target_tx_hash(ins_log[i]) = target
                 THEN Append(F[i - 1], Tail(ins_log[i]))
                 ELSE F[i - 1]
    IN  F[Len(ins_log)]

\* the targets of the bundles stored so far
InsertedTargets == {Head(ins_log[i]) : i \in 1 .. Len(ins_log)}

\* C12: insert of a bundle with fewer than 2 transactions returns an error
\* and leaves the store unchanged: the targets, every target's backrun lists
\* and the eviction queue are the same as before the call.
C12_ShortBundleRejected ==
    [][(sop'.op = "insert" /\ Len(sop'.bundle) < 2) =>
          /\ ~sop'.ok
          /\ by_target_tx' = by_target_tx
          /\ backrun_lru' = backrun_lru
          /\ BackrunBundleStore_len(by_target_tx')
               = BackrunBundleStore_len(by_target_tx)]_vars

\* C12 witness: a bundle of one transaction was rejected by a store that
\* holds bundles
C12_Witness ==
    /\ sop.op = "insert"
    /\ Len(sop.bundle) = 1
    /\ ~sop.ok
    /\ BackrunBundleStore_len(by_target_tx) >= 1

\* the calls of base_sendBackrunBundle
IsSend(call) == call.op \in {"send_backrun_bundle", "insert"}

\* C28: a submission of fewer than 2 transactions, or one that cannot be
\* parsed, is answered with invalid params and leaves the store as it was;
\* internal error is answered only for a failure of the storage, never for a
\* malformed submission; a call answered Ok has stored the bundle.
C28_ErrorClassification ==
    [][IsSend(sop') =>
          /\ (Len(sop'.bundle) < 2 \/ ~parses(sop'.bundle))
               => /\ sop'.code = "INVALID_PARAMS_CODE"
                  /\ by_target_tx' = by_target_tx
                  /\ backrun_lru' = backrun_lru
          /\ sop'.code = "INTERNAL_ERROR_CODE"
               => (Len(sop'.bundle) >= 2 /\ parses(sop'.bundle))
          /\ sop'.code = "OK"
               => /\ by_target_tx'[sop'.target] # NoBundles
                  /\ by_target_tx'[sop'.target][Len(by_target_tx'[sop'.target])]
                       = backrun_txs(sop'.bundle)]_vars

\* C28, the part that holds: an unparsable submission is answered with
\* invalid params, no submission of fewer than 2 transactions or that cannot
\* be parsed changes the store, and a call answered Ok has stored the bundle
C28_RejectedNeverStored ==
    [][IsSend(sop') =>
          /\ ~parses(sop'.bundle) => sop'.code = "INVALID_PARAMS_CODE"
          /\ (Len(sop'.bundle) < 2 \/ ~parses(sop'.bundle))
               => /\ sop'.code # "OK"
                  /\ by_target_tx' = by_target_tx
                  /\ backrun_lru' = backrun_lru
          /\ sop'.code = "OK"
               => /\ by_target_tx'[sop'.target] # NoBundles
                  /\ by_target_tx'[sop'.target][Len(by_target_tx'[sop'.target])]
                       = backrun_txs(sop'.bundle)]_vars

\* C28: a parsed bundle of the target alone was answered with internal error
C28_ShortBundleInternalError ==
    /\ sop.op = "insert"
    /\ Len(sop.bundle) = 1
    /\ parses(sop.bundle)
    /\ sop.code = "INTERNAL_ERROR_CODE"

\* C13: for every k >= 1, after k successful inserts of bundles that share
\* the same target and no remove of that target, get(target) returns the k
\* backrun lists in submission order and len() counts the target once.
C13_SameTargetAccumulates ==
    \A t \in Targets :
        (Len(ins_log) >= 1 /\ InsertedTargets = {t} /\ t \notin removed) =>
            /\ BackrunBundleStore_get(by_target_tx, t) = Submitted(t)
            /\ BackrunBundleStore_len(by_target_tx) = 1

\* C14, each remove: the target has no backrun list afterwards, len() drops
\* by one when the target was stored and is unchanged otherwise, the lists
\* of every other target and the eviction queue are unchanged
C14_Step ==
    sop'.op = "remove" =>
        LET t == sop'.target
            n == BackrunBundleStore_len(by_target_tx)
        IN  /\ sop'.ok
            /\ BackrunBundleStore_get(by_target_tx', t) = NoBundles
            /\ BackrunBundleStore_len(by_target_tx')
                 = IF by_target_tx[t] # NoBundles THEN n - 1 ELSE n
            /\ \A u \in Targets \ {t} : by_target_tx'[u] = by_target_tx[u]
            /\ by_target_tx[t] = NoBundles
                 => (by_target_tx' = by_target_tx /\ backrun_lru' = backrun_lru)

\* C14: remove(target) deletes every backrun list accumulated for that
\* target, so get(target) returns nothing afterwards and len() drops by one;
\* remove of a target that is not stored changes nothing and does not fail;
\* the lists of every other target are unchanged.
C14_RemoveDeletesAllLists ==
    [][C14_Step]_vars
      /\ []((sop.op = "remove") => by_target_tx[sop.target] = NoBundles)

\* C14 witness: a target with two backrun lists was removed
C14_Witness ==
    /\ sop.op = "remove"
    /\ Len(sop.result) = 2
    /\ by_target_tx[sop.target] = NoBundles
    /\ BackrunBundleStore_len(by_target_tx) = 0

\* C15: with capacity N, once valid bundles for N+1 distinct targets were
\* inserted (no remove; the first target submitted once, so that it is the
\* first-inserted one whatever order is meant), exactly N targets remain and
\* the one removed is the first-inserted target with all of its lists.
C15_EvictsFirstInsertedTarget ==
    (/\ removed = {}
     /\ Cardinality(InsertedTargets) = StoreCapacity + 1
     /\ \A i \in 2 .. Len(ins_log) : Head(ins_log[i]) # Head(ins_log[1])
     /\ \A i \in 1 .. (Len(ins_log) - 1) :
            Head(ins_log[i]) # Head(ins_log[Len(ins_log)])
     /\ sop.op = "insert" /\ sop.ok)
      => /\ BackrunBundleStore_len(by_target_tx) = StoreCapacity
         /\ by_target_tx[Head(ins_log[1])] = NoBundles

\* the bundles stored so far whose first transaction is target t
SubmittedFor(t) == {ins_log[i] : i \in {j \in 1 .. Len(ins_log) : Head(ins_log[j]) = t}}

\* the list is transactions 2..n, in order, of a bundle submitted for t
IsBackrunListOf(list, t) ==
    \E bundle \in SubmittedFor(t) :
        /\ Len(bundle) >= 2
        /\ Len(list) = Len(bundle) - 1
        /\ \A k \in 1 .. Len(list) : list[k] = bundle[k + 1]

\* C36: in every reachable state each list stored under a target hash is the
\* tail (transactions 2..n, in order) of one submitted bundle whose first
\* transaction has that hash; every stored list is non-empty; the bundle's
\* first transaction is not copied into the list, so a list returned by get
\* holds the target's hash only if the bundle repeats it after position 1.
C36_StoredListsAreTails ==
    /\ \A t \in Targets :
         \A k \in 1 .. Len(by_target_tx[t]) :
            /\ by_target_tx[t][k] # <<>>
            /\ IsBackrunListOf(by_target_tx[t][k], t)
    /\ sop.op = "get" =>
         \A k \in 1 .. Len(sop.result) :
            /\ sop.result[k] # <<>>
            /\ IsBackrunListOf(sop.result[k], sop.target)
            /\ (\E j \in 1 .. Len(sop.result[k]) : sop.result[k][j] = sop.target)
                 => \E bundle \in SubmittedFor(sop.target) :
                       \E j \in 2 .. Len(bundle) : bundle[j] = sop.target

\* C36 as stated: each stored list is the tail of a bundle submitted for
\* its target and is non-empty, and the target's hash is never an element of
\* a list returned by get
C36_TargetNeverInList ==
    /\ \A t \in Targets :
         \A k \in 1 .. Len(by_target_tx[t]) :
            /\ by_target_tx[t][k] # <<>>
            /\ IsBackrunListOf(by_target_tx[t][k], t)
    /\ sop.op = "get" =>
         \A k \in 1 .. Len(sop.result) :
            \A j \in 1 .. Len(sop.result[k]) : sop.result[k][j] # sop.target

\* C36 witness: get returns for a target the two backruns of one bundle and
\* the single backrun of another, none of them the target
C36_Witness ==
    /\ sop.op = "get"
    /\ Len(sop.result) = 2
    /\ \E k \in 1 .. 2 : Len(sop.result[k]) = 2
    /\ \A k \in 1 .. 2 : \A j \in 1 .. Len(sop.result[k]) :
           sop.result[k][j] # sop.target

\* the targets the map holds
Stored == {t \in Targets : by_target_tx[t] # NoBundles}

\* position in the history of the first bundle stored for target t
FirstInsertion(t) ==
    CHOOSE i \in 1 .. Len(ins_log) :
        /\ Head(ins_log[i]) = t
        /\ \A j \in 1 .. (i - 1) : Head(ins_log[j]) # t

\* the step is an insert that takes away lists stored for target x
InsertEvicts(x) ==
    /\ sop'.op = "insert"
    /\ sop'.ok
    /\ ins_log' # ins_log
    /\ x \in Stored
    /\ \/ by_target_tx'[x] = NoBundles
       \/ (x = sop'.target /\ Len(by_target_tx'[x]) <= Len(by_target_tx[x]))

\* C37: an insert removes a stored target only when the store already holds
\* capacity distinct targets, and the target it removes is the one whose
\* first insertion is the oldest among the targets stored; repeated inserts
\* for one target and inserts after a remove never evict while below
\* capacity or evict a newer target.
C37_EvictsOnlyAtCapacityTheOldest ==
    [][\A x \in Targets :
          InsertEvicts(x) =>
             /\ Cardinality(Stored) = StoreCapacity
             /\ \A y \in Stored : FirstInsertion(x) <= FirstInsertion(y)]_vars

\* C37, the part that holds: an insert takes lists away only from the
\* target at the head of a full eviction queue
C37_EvictsHeadOfFullQueue ==
    [][\A x \in Targets :
          InsertEvicts(x) =>
             /\ Len(backrun_lru) = StoreCapacity
             /\ Head(backrun_lru) = x]_vars

\* C37: a target was evicted by its own second resubmission while it was the
\* only target stored
C37_EvictedBelowCapacity ==
    /\ sop.op = "insert"
    /\ sop.ok
    /\ Len(ins_log) = StoreCapacity + 1
    /\ removed = {}
    /\ InsertedTargets = {sop.target}
    /\ Len(by_target_tx[sop.target]) = 1

\* the step stores a backrun list for target x and returns Ok
StoresFor(x) ==
    \E c \in Callers :
        /\ callers[c].pc = "store"
        /\ callers'[c].pc = "ok"
        /\ Head(callers[c].bundle) = x
        /\ by_target_tx'[x] =
             (IF by_target_tx[x] = NoBundles THEN <<>> ELSE by_target_tx[x])
                \o <<Tail(callers[c].bundle)>>

\* the step is the removal of x from the map by an eviction that popped x
EvictionOf(x) ==
    \E c \in Callers :
        /\ callers[c].pc = "evict"
        /\ callers'[c].pc = "push"
        /\ callers[c].popped = x

\* the step is a call of remove(x)
RemovalOf(x) == ConcRemove(x)

\* C26, each step of each interleaving: what get(x) returns for a target x
\* is as before, or an insert for x returning Ok appended its list, or the
\* lists were deleted by remove(x) or by an eviction that popped x; an
\* eviction pops the oldest target of the queue
C26_Step ==
    /\ \A x \in Targets :
          \/ BackrunBundleStore_get(by_target_tx', x)
               = BackrunBundleStore_get(by_target_tx, x)
          \/ StoresFor(x)
          \/ /\ BackrunBundleStore_get(by_target_tx', x) = NoBundles
             /\ EvictionOf(x) \/ RemovalOf(x)
    /\ \A c \in Callers :
          (callers[c].pc = "pop" /\ callers'[c].pc = "evict")
             => callers'[c].popped = Head(backrun_lru)

\* C26: for every interleaving of insert, get and remove by independent
\* callers, an insert that returned Ok for target X stays retrievable
\* through get(X) until remove(X) is called or X is the oldest target at an
\* eviction; an eviction or removal of another target never deletes or
\* truncates the lists stored for X.
C26_ConcurrentCallersKeepOtherTargets == [][C26_Step]_vars

\* C26 witness: while one insert has evicted a target and the other insert
\* is about to store its list, another target still has its backrun list
C26_Witness ==
    \E c, d \in Callers : \E x \in Targets :
        /\ c # d
        /\ callers[c].pc = "push"
        /\ callers[c].popped # 0
        /\ callers[c].popped # x
        /\ by_target_tx[callers[c].popped] = NoBundles
        /\ callers[d].pc = "store"
        /\ by_target_tx[x] # NoBundles

\* the targets that have an entry in the eviction queue
Queued == {backrun_lru[i] : i \in 1 .. Len(backrun_lru)}

\* C38: in every state reachable by any interleaving of concurrent insert,
\* get and remove calls, the map holds at most capacity targets and every
\* target stored in the map has at least one entry in the eviction queue
\* (stated for the states in which no insert is between two of its steps).
C38_SizeBound ==
    InFlight = {} =>
        /\ BackrunBundleStore_len(by_target_tx) <= StoreCapacity
        /\ \A t \in Targets : by_target_tx[t] # NoBundles => t \in Queued

\* C38, the part that holds: the eviction queue is within its capacity
C38_QueueBound == Len(backrun_lru) <= StoreCapacity

\* C38: both inserts have returned Ok and a target they stored has no entry
\* in the full eviction queue
C38_StoredNotQueued ==
    /\ \A c \in Callers : callers[c].pc = "ok"
    /\ Len(backrun_lru) = StoreCapacity
    /\ \E c \in Callers :
          /\ by_target_tx[Head(callers[c].bundle)] # NoBundles
          /\ Head(callers[c].bundle) \notin Queued

\* ------------------------------------ bundle iterator: BestFlashblocksBundles
\* BestFlashblocksBundles::commited_transactions: empty from new on, the
\* type has no method that adds to it
bundles_commited_transactions == {}

\* next, lines 72-76: the loop over the bundle's transactions; its `continue`
\* continues that inner loop, so the loop decides nothing
commited_loop_skips(bundle) == FALSE

\* the block check as it would be without `block_num != 0`
block_ok_without_zero(bundle, block) == bundle.block_number = block

\* next, lines 82-84: the bundle names no block or the current block
block_ok(bundle, block) ==
    ~(bundle.block_number # 0 /\ bundle.block_number # block)

\* next, lines 87-91: min flashblock requirement
min_ok(bundle, flashblock) ==
    ~(bundle.flashblock_number_min # None
        /\ flashblock < bundle.flashblock_number_min)

\* the max check as it would be with `>=` for `>`
max_ok_exclusive(bundle, flashblock) ==
    ~(bundle.flashblock_number_max # None
        /\ flashblock >= bundle.flashblock_number_max)

\* next, lines 94-99: max flashblock requirement
max_ok(bundle, flashblock) ==
    ~(bundle.flashblock_number_max # None
        /\ flashblock > bundle.flashblock_number_max)

\* one turn of next's loop returns the bundle
admissible(bundle, block, flashblock) ==
    /\ ~commited_loop_skips(bundle)
    /\ block_ok(bundle, block)
    /\ min_ok(bundle, flashblock)
    /\ max_ok(bundle, flashblock)

\* next's loop as it would be if every call examined the list from its start
next_position_from_start(bs, idx, block, flashblock) ==
    LET S == {p \in 1 .. Len(bs) : admissible(bs[p], block, flashblock)}
    IN  IF S = {} THEN 0 ELSE CHOOSE p \in S : \A q \in S : p <= q

\* next's loop as it would be if the cursor were advanced twice per turn
next_position_skips_one(bs, idx, block, flashblock) ==
    LET S == {p \in (idx + 2) .. Len(bs) : admissible(bs[p], block, flashblock)}
    IN  IF S = {} THEN 0 ELSE CHOOSE p \in S : \A q \in S : p <= q

\* next's loop: the position of the first admissible bundle after the
\* cursor, 0 when the list ends first
next_position(bs, idx, block, flashblock) ==
    LET S == {p \in (idx + 1) .. Len(bs) : admissible(bs[p], block, flashblock)}
    IN  IF S = {} THEN 0 ELSE CHOOSE p \in S : \A q \in S : p <= q

IterInit ==
    /\ overflow_checks = FALSE
    /\ LimitIdle
    /\ SimIdle
    /\ ConcIdle
    /\ CacheIdle
    /\ BuilderIdle
    /\ StoreIdle
    /\ TxsIdle
    /\ bundle_pool \in BundlePools
    /\ bundles = <<>>
    /\ curr_bundles_idx = 0
    /\ current_flashblock_number = 0
    /\ current_block_num = 0
    /\ returned = <<>>
    /\ exhausted = FALSE
    /\ backrun_bundles = {}
    /\ yielded = {}

\* InMemoryBundlePool::get_backrun_bundles: the pool's bundles keyed by their
\* target transaction, as pairs <<target hash, bundle>>
get_backrun_bundles(pool) ==
    {<<h, b>> \in (1 .. MaxBundles) \X {pool[i] : i \in 1 .. Len(pool)} :
        h \in b.txs}

\* load_transactions as it would be if it left the cursor where it was
load_transactions_keeps_cursor(block, flashblock) ==
    /\ current_flashblock_number' = flashblock
    /\ current_block_num' = block
    /\ bundles' = bundle_pool
    /\ backrun_bundles' = get_backrun_bundles(bundle_pool)
    /\ curr_bundles_idx' = IF curr_bundles_idx <= Len(bundle_pool)
                           THEN curr_bundles_idx ELSE Len(bundle_pool)

\* BestFlashblocksBundles::load_transactions, lines 46-51: the fields it
\* assigns
load_transactions(block, flashblock) ==
    /\ current_flashblock_number' = flashblock
    /\ current_block_num' = block
    /\ bundles' = bundle_pool
    /\ backrun_bundles' = get_backrun_bundles(bundle_pool)
    /\ curr_bundles_idx' = 0

\* a session begins: load_transactions is called for a block and a flashblock
BundlesLoad(block, flashblock) ==
    /\ load_transactions(block, flashblock)
    /\ returned' = <<>>
    /\ exhausted' = FALSE
    /\ UNCHANGED <<overflow_checks, sim_vars, callers, limit_vars, cache_vars, builder_vars,
                   store_vars, txs_vars, bundle_pool, yielded>>

\* BestFlashblocksBundles::next
BundlesNext ==
    /\ LET p == next_position(bundles, curr_bundles_idx, current_block_num,
                              current_flashblock_number)
       IN  IF p = 0
           THEN /\ curr_bundles_idx' = Len(bundles)
                /\ exhausted' = TRUE
                /\ UNCHANGED returned
           ELSE /\ curr_bundles_idx' = p
                /\ returned' = Append(returned, p)
                /\ UNCHANGED exhausted
    /\ UNCHANGED <<overflow_checks, sim_vars, callers, limit_vars, cache_vars, builder_vars,
                   store_vars, txs_vars, bundle_pool, bundles,
                   current_flashblock_number, current_block_num,
                   backrun_bundles, yielded>>

IterNext ==
    \/ \E block \in BlockNumbers : \E flashblock \in 0 .. MaxFlashblock :
           BundlesLoad(block, flashblock)
    \/ BundlesNext

SpecIter == IterInit /\ [][IterNext]_vars

\* ------------------------- bundle iterator: sessions of a changing pool
\* the pools of the sessions: bundles with no lower flashblock bound
ReloadPools ==
    {pool \in BundlePools :
        \A p \in 1 .. MaxBundles : pool[p].flashblock_number_min = None}

ReloadInit ==
    /\ overflow_checks = FALSE
    /\ LimitIdle
    /\ SimIdle
    /\ ConcIdle
    /\ CacheIdle
    /\ BuilderIdle
    /\ StoreIdle
    /\ TxsIdle
    /\ bundle_pool \in ReloadPools
    /\ bundles = <<>>
    /\ curr_bundles_idx = 0
    /\ current_flashblock_number = 0
    /\ current_block_num = 0
    /\ returned = <<>>
    /\ exhausted = FALSE
    /\ backrun_bundles = {}
    /\ yielded = {}

\* a session follows another: load_transactions, with the bundles the
\* session before returned kept as history
BundlesReload(block, flashblock) ==
    /\ load_transactions(block, flashblock)
    /\ returned' = <<>>
    /\ exhausted' = FALSE
    /\ yielded' = yielded \cup {bundles[returned[i]] : i \in 1 .. Len(returned)}
    /\ UNCHANGED <<overflow_checks, sim_vars, callers, limit_vars, cache_vars, builder_vars,
                   store_vars, txs_vars, bundle_pool>>

\* on_new_flashblock -> InMemoryBundlePool::built_flashblock: the pool drops
\* its first bundle; the list the iterator loaded is not touched
on_new_flashblock ==
    /\ Len(bundle_pool) = MaxBundles
    /\ bundle_pool' = Tail(bundle_pool)
    /\ UNCHANGED <<overflow_checks, sim_vars, callers, limit_vars, cache_vars, builder_vars,
                   store_vars, txs_vars, bundles, curr_bundles_idx,
                   current_flashblock_number, current_block_num, returned,
                   exhausted, backrun_bundles, yielded>>

ReloadNext ==
    \/ \E block \in BlockNumbers : \E flashblock \in 0 .. MaxFlashblock :
           BundlesReload(block, flashblock)
    \/ BundlesNext
    \/ on_new_flashblock

SpecReload == ReloadInit /\ [][ReloadNext]_vars

\* ----------------------------------------- bundle iterator: BestFlashblocksTxs
\* the bundles select_bundles returns, in priority order: the transaction
\* hashes of each
DbBundles == <<{1}, {2}, {3}>>

TxsInit ==
    /\ overflow_checks = FALSE
    /\ LimitIdle
    /\ SimIdle
    /\ ConcIdle
    /\ CacheIdle
    /\ BuilderIdle
    /\ StoreIdle
    /\ IterIdle
    /\ TxsIdle

\* BestFlashblocksTxs::refresh_iterator; the flashblock number it stores is
\* read by no code
refresh_iterator ==
    /\ txs_bundles' = DbBundles
    /\ bundle_idx' = 0
    /\ txs_returned' = <<>>
    /\ txs_exhausted' = FALSE
    /\ UNCHANGED <<overflow_checks, sim_vars, callers, limit_vars, cache_vars, builder_vars,
                   store_vars, iter_vars, commited_transactions>>

\* BestFlashblocksTxs::mark_commited
mark_commited(txs) ==
    /\ commited_transactions' = commited_transactions \cup txs
    /\ UNCHANGED <<overflow_checks, sim_vars, callers, limit_vars, cache_vars, builder_vars,
                   store_vars, iter_vars, txs_bundles, bundle_idx, txs_returned,
                   txs_exhausted>>

\* BestFlashblocksTxs::next: the loop over the hashes (lines 85-89) only
\* continues itself, every turn of the outer loop returns the bundle
TxsNext ==
    /\ IF bundle_idx >= Len(txs_bundles)
       THEN /\ txs_exhausted' = TRUE
            /\ UNCHANGED <<bundle_idx, txs_returned>>
       ELSE /\ bundle_idx' = bundle_idx + 1
            /\ txs_returned' =
                   Append(txs_returned,
                          [txn_hashes |-> txs_bundles[bundle_idx + 1],
                           commited |-> commited_transactions])
            /\ UNCHANGED txs_exhausted
    /\ UNCHANGED <<overflow_checks, sim_vars, callers, limit_vars, cache_vars, builder_vars,
                   store_vars, iter_vars, txs_bundles, commited_transactions>>

TxsIterNext ==
    \/ refresh_iterator
    \/ \E txs \in (SUBSET {1, 2, 3}) \ {{}} : mark_commited(txs)
    \/ TxsNext

SpecTxs == TxsInit /\ [][TxsIterNext]_vars

\* --------------------------------- bundle iterators: what the spec states
\* the flashblock index is within the bundle's inclusive range
InRange(bundle, i) ==
    /\ bundle.flashblock_number_min = None \/ bundle.flashblock_number_min <= i
    /\ bundle.flashblock_number_max = None \/ i <= bundle.flashblock_number_max

\* the bundle names no target block or the block of the session
ForBlock(bundle, b) == bundle.block_number = 0 \/ bundle.block_number = b

Returned == {returned[i] : i \in 1 .. Len(returned)}

\* C16: in a session loaded with flashblock index i, a bundle with range
\* [min, max] is returned by next only if min <= i <= max, and is returned
\* before the end of the session if min <= i <= max (both bounds inclusive,
\* an unset bound is no constraint) and the block filter lets it through; a
\* bundle with range [1,3] is returned at index 1, 2 and 3, never at 0 or 4.
C16_FlashblockRange ==
    \A p \in 1 .. Len(bundles) :
        /\ p \in Returned => InRange(bundles[p], current_flashblock_number)
        /\ (exhausted /\ ForBlock(bundles[p], current_block_num)
              /\ InRange(bundles[p], current_flashblock_number))
             => p \in Returned
        /\ (exhausted /\ ForBlock(bundles[p], current_block_num)
              /\ bundles[p].flashblock_number_min = 1
              /\ bundles[p].flashblock_number_max = 3)
             => (p \in Returned <=> current_flashblock_number \in {1, 2, 3})

\* C16 witness: a session at flashblock 3 ended, it returned a bundle with
\* range [1,3]
C16_Witness ==
    /\ exhausted
    /\ current_flashblock_number = 3
    /\ \E p \in Returned :
           /\ bundles[p].flashblock_number_min = 1
           /\ bundles[p].flashblock_number_max = 3

\* C17: in a session loaded for block b, a bundle that names a target block
\* different from b is never returned at any flashblock index, and a bundle
\* that names no target block (block_number 0) is never filtered by block
\* number: it is returned whenever its flashblock range admits the index.
C17_BlockTarget ==
    \A p \in 1 .. Len(bundles) :
        /\ (bundles[p].block_number # 0
              /\ bundles[p].block_number # current_block_num)
             => p \notin Returned
        /\ (exhausted /\ bundles[p].block_number = 0
              /\ InRange(bundles[p], current_flashblock_number))
             => p \in Returned

\* C17 witness: a session for block 6 ended; it left out a bundle for block 5
\* and returned a bundle that names no block
C17_Witness ==
    /\ exhausted
    /\ current_block_num = 6
    /\ \E p \in 1 .. Len(bundles) :
           bundles[p].block_number = 5 /\ p \notin Returned
    /\ \E p \in Returned : bundles[p].block_number = 0

\* C18: once a transaction hash is marked committed, next never returns a
\* bundle that contains that hash; after committing tx1 and tx3 the next
\* session returns only the bundle of tx2.
C18_CommittedNeverReturned ==
    /\ \A i \in 1 .. Len(txs_returned) :
           txs_returned[i].txn_hashes \cap txs_returned[i].commited = {}
    /\ (txs_exhausted /\ Len(txs_returned) > 0
          /\ txs_returned[1].commited = {1, 3})
         => [i \in 1 .. Len(txs_returned) |-> txs_returned[i].txn_hashes]
              = <<{2}>>

\* the positions of the loaded list that pass every filter, in list order
RECURSIVE PassingFrom(_)
PassingFrom(p) ==
    IF p > Len(bundles) THEN <<>>
    ELSE IF /\ bundles[p].txs \cap bundles_commited_transactions = {}
            /\ ForBlock(bundles[p], current_block_num)
            /\ InRange(bundles[p], current_flashblock_number)
         THEN <<p>> \o PassingFrom(p + 1)
         ELSE PassingFrom(p + 1)

\* C19: within one load session the bundles returned by successive next
\* calls are, at every moment, the first of the loaded bundles that pass
\* every filter, in the order of the loaded list, and all of them once next
\* has returned None: nothing reordered, duplicated or dropped.
C19_OrderAndCompleteness ==
    /\ Len(returned) <= Len(PassingFrom(1))
    /\ returned = SubSeq(PassingFrom(1), 1, Len(returned))
    /\ exhausted => returned = PassingFrom(1)
    /\ curr_bundles_idx =
         IF exhausted THEN Len(bundles)
         ELSE IF returned = <<>> THEN 0 ELSE returned[Len(returned)]

\* C19 witness: a session ended after it returned the first and the third
\* bundle and skipped the second
C19_Witness ==
    /\ exhausted
    /\ returned = <<1, 3>>
    /\ Len(bundles) = 3

\* the step is a call of load_transactions: a session begins
C33_LoadStep == returned' = <<>> /\ ~exhausted' /\ curr_bundles_idx' = 0

\* C33, each step within a session: the cursor does not move back and stays
\* within the list, the candidates examined are the ones after the cursor,
\* a candidate returned is one of those, and after end-of-sequence a next
\* changes nothing
C33_Step ==
    ~C33_LoadStep =>
        /\ bundles' = bundles
        /\ curr_bundles_idx' >= curr_bundles_idx
        /\ curr_bundles_idx' <= Len(bundles)
        /\ \/ returned' = returned
           \/ /\ returned' = Append(returned, curr_bundles_idx')
              /\ curr_bundles_idx' > curr_bundles_idx
        /\ exhausted =>
              /\ exhausted'
              /\ returned' = returned
              /\ curr_bundles_idx' = curr_bundles_idx

\* C33, each state: the candidates returned so far are distinct positions of
\* the list, in increasing order, none beyond the cursor
C33_State ==
    /\ curr_bundles_idx \in 0 .. Len(bundles)
    /\ \A i \in 1 .. Len(returned) :
           /\ returned[i] \in 1 .. curr_bundles_idx
           /\ \A j \in 1 .. Len(returned) : i < j => returned[i] < returned[j]

\* C33: within one load session the cursor only moves forward, each loaded
\* candidate is examined at most once and returned at most once, every next
\* examines at most the remaining candidates, and once next has returned
\* end-of-sequence every further next returns it until the next load.
C33_CursorOnlyForward == [](C33_State) /\ [][C33_Step]_vars

\* C33 witness: a session ended after it skipped the first candidate and
\* returned the two after it
C33_Witness ==
    /\ exhausted
    /\ returned = <<2, 3>>
    /\ curr_bundles_idx = Len(bundles)

\* C33 for BestFlashblocksTxs: the same within a refresh_iterator session
C33_TxsCursorOnlyForward ==
    /\ [](bundle_idx \in 0 .. Len(txs_bundles) /\ Len(txs_returned) = bundle_idx)
    /\ [][(~(txs_returned' = <<>> /\ ~txs_exhausted' /\ bundle_idx' = 0)) =>
             /\ bundle_idx' \in {bundle_idx, bundle_idx + 1}
             /\ bundle_idx' = bundle_idx + 1
                  => /\ Len(txs_returned') = bundle_idx'
                     /\ txs_returned'[bundle_idx'].txn_hashes
                          = txs_bundles[bundle_idx']
             /\ txs_exhausted
                  => (txs_exhausted' /\ bundle_idx' = bundle_idx
                        /\ txs_returned' = txs_returned)]_vars

\* the step is a call of load_transactions
C34_LoadStep ==
    \/ yielded' # yielded
    \/ bundles' # bundles
    \/ current_block_num' # current_block_num
    \/ current_flashblock_number' # current_flashblock_number
    \/ (returned # <<>> /\ returned' = <<>>)
    \/ (exhausted /\ ~exhausted')

Loaded == {bundles[p] : p \in 1 .. Len(bundles)}

\* C34, each load: the list is the pool's list as it is now, the backrun map
\* is the pool's, the block and the index are arguments of the call and the
\* cursor is 0
C34_Step ==
    C34_LoadStep =>
        /\ bundles' = bundle_pool
        /\ backrun_bundles'
             = {<<h, b>> \in (1 .. MaxBundles)
                               \X {bundle_pool[i] : i \in 1 .. Len(bundle_pool)} :
                   h \in b.txs}
        /\ current_block_num' \in BlockNumbers
        /\ current_flashblock_number' \in 0 .. MaxFlashblock
        /\ curr_bundles_idx' = 0

\* C34, each session: a bundle returned in an earlier session that is in the
\* loaded list and passes the filters of this session is returned again
\* before the session ends
C34_State ==
    exhausted =>
        \A p \in 1 .. Len(bundles) :
            (/\ bundles[p] \in yielded
             /\ ForBlock(bundles[p], current_block_num)
             /\ InRange(bundles[p], current_flashblock_number))
              => p \in Returned

\* C34: load_transactions(block, index) replaces the candidate list and the
\* backrun map with the pool's current contents, sets the block and the
\* flashblock index to its arguments and resets the cursor to 0, so a bundle
\* yielded in an earlier session is yielded again in the new session whenever
\* it passes the filters for the new block and index.
C34_LoadStartsSessionAnew == [](C34_State) /\ [][C34_Step]_vars

\* C34 witness: a session loaded after the pool dropped a bundle ended; it
\* returned a bundle that an earlier session had returned, and the dropped
\* bundle, returned earlier too, is not in its list
C34_Witness ==
    /\ exhausted
    /\ Len(bundles) = MaxBundles - 1
    /\ \E p \in Returned : bundles[p] \in yielded
    /\ \E b \in yielded : b \notin Loaded

\* the step is a call of refresh_iterator
C35_RefreshStep ==
    \/ txs_bundles' # txs_bundles
    \/ (bundle_idx > 0 /\ bundle_idx' = 0)
    \/ (txs_exhausted /\ ~txs_exhausted')

\* C35: the committed-transaction set is fresh after every reload of the
\* iterator: right after refresh_iterator the set is empty, and the hashes
\* marked committed in an earlier session are not in it.
C35_CommittedSetFreshOnReload ==
    [][C35_RefreshStep => commited_transactions' = {}]_vars

\* C35: what refresh_iterator does with the set: it leaves it as it is
C35_RefreshKeepsCommitted ==
    [][C35_RefreshStep => commited_transactions' = commited_transactions]_vars

\* ------------------------------------------ simulating validator: calls
\* transactions validated in one call of validate_transactions
MaxBatch == 2

\* TransactionOrigin of a submission
Origins == {"Local", "External"}

\* the pooled transactions handed to the validator, none simulated yet
PoolTxs == {[id |-> i, sim_outcome |-> <<>>] : i \in {1, 2}}

\* Vec<(TransactionOrigin, Self::Transaction)>
ValidatorInputs == [origin : Origins, transaction : PoolTxs]

\* TransactionValidationOutcome: Valid with ValidTransaction::Valid or
\* ValidTransaction::ValidWithSidecar, Invalid, Error
OutcomeKinds == {"Valid", "ValidWithSidecar", "Invalid", "Error"}

\* what the overlay and the EVM do in one simulation: the first step that
\* fails, or the transaction reverts, or it succeeds
SimEnvs ==
    {[stage |-> f, gas_used |-> 0, elapsed |-> 0] :
        f \in {"next_evm_env_err", "builder_for_next_block_err",
               "apply_pre_execution_changes_err", "transact_err"}}
      \cup {[stage |-> "reverted", gas_used |-> 21, elapsed |-> 0],
            [stage |-> "success", gas_used |-> 21, elapsed |-> 7]}

\* the SimOutcome of the four early returns of simulate
SimFailed ==
    [success |-> FALSE, invalid_nonce_too_low |-> FALSE, invalid_other |-> TRUE,
     simulated_gas_used |-> None, execution_time_us |-> None]

\* simulate as it would be if a failed pre-execution step went on to the
\* transaction and reported its execution
simulate_ignores_pre_execution(env) ==
    IF env.stage \in {"next_evm_env_err", "builder_for_next_block_err", "transact_err"}
    THEN SimFailed
    ELSE [success |-> env.stage = "success",
          invalid_nonce_too_low |-> FALSE,
          invalid_other |-> FALSE,
          simulated_gas_used |-> env.gas_used,
          execution_time_us |-> env.elapsed]

\* OpValidationSimulator::simulate
OpValidationSimulator_simulate(env) ==
    IF env.stage = "next_evm_env_err" THEN SimFailed
    ELSE IF env.stage = "builder_for_next_block_err" THEN SimFailed
    ELSE IF env.stage = "apply_pre_execution_changes_err" THEN SimFailed
    ELSE IF env.stage = "transact_err" THEN SimFailed
    ELSE [success |-> env.stage = "success",
          invalid_nonce_too_low |-> FALSE,
          invalid_other |-> FALSE,
          simulated_gas_used |-> env.gas_used,
          execution_time_us |-> env.elapsed]

\* MaybeSimulatedTransaction::set_sim_outcome
set_sim_outcome(tx, sim_outcome) == [tx EXCEPT !.sim_outcome = <<sim_outcome>>]

\* the pattern of lines 75 and 102 as it would be if it matched
\* ValidTransaction::Valid only
is_valid_without_sidecar(outcome) == outcome.kind = "Valid"

\* `if let TransactionValidationOutcome::Valid { .. }` of lines 75 and 102
is_valid(outcome) == outcome.kind \in {"Valid", "ValidWithSidecar"}

\* lines 80-87 and 106-113: both arms of the match set the outcome
attach(outcome, sim_outcome) ==
    [outcome EXCEPT !.transaction = set_sim_outcome(@, sim_outcome)]

\* the origin of a simulation as it would be if the first origin were used
origin_of_first(origins, idx) == origins[1]

\* let origin = origins[idx]
origin_of(origins, idx) == origins[idx]

\* the inner validator's outcomes for the inputs, one per input, in order
InnerOutcomes(inputs) ==
    {[i \in 1 .. Len(inputs) |->
         [kind |-> k[i], transaction |-> inputs[i].transaction]] :
       k \in [1 .. Len(inputs) -> OutcomeKinds]}

\* one call of TxSimulator::simulate and what it returned
SimCall(origin, outcome, env) ==
    [origin |-> origin, tx |-> outcome.transaction.id, env |-> env,
     result |-> OpValidationSimulator_simulate(env)]

\* the simulations of the loop of validate_transactions up to position n
RECURSIVE SimCallsUpTo(_, _, _, _)
SimCallsUpTo(origins, inner, envs, n) ==
    IF n = 0 THEN <<>>
    ELSE IF is_valid(inner[n])
         THEN Append(SimCallsUpTo(origins, inner, envs, n - 1),
                     SimCall(origin_of(origins, n), inner[n], envs[n]))
         ELSE SimCallsUpTo(origins, inner, envs, n - 1)

\* SimulatingValidator::validate_transaction
ValidateTransaction ==
    /\ vpc = "idle"
    /\ \E input \in ValidatorInputs :
         \E inner \in InnerOutcomes(<<input>>) :
           \E env \in SimEnvs :
             /\ vin' = <<input>>
             /\ inner_outcomes' = inner
             /\ IF is_valid(inner[1])
                THEN /\ sim_calls' = <<SimCall(input.origin, inner[1], env)>>
                     /\ outcomes' =
                          <<attach(inner[1], OpValidationSimulator_simulate(env))>>
                ELSE /\ sim_calls' = <<>>
                     /\ outcomes' = inner
    /\ vpc' = "validate_transaction"
    /\ UNCHANGED <<overflow_checks, limit_vars, cache_vars, builder_vars, bundle_vars,
                   callers>>

\* SimulatingValidator::validate_transactions
ValidateTransactions ==
    /\ vpc = "idle"
    /\ \E n \in 0 .. MaxBatch :
         \E inputs \in [1 .. n -> ValidatorInputs] :
           \E inner \in InnerOutcomes(inputs) :
             \E envs \in [1 .. n -> SimEnvs] :
               LET origins == [i \in 1 .. Len(inputs) |-> inputs[i].origin]
               IN  /\ vin' = inputs
                   /\ inner_outcomes' = inner
                   /\ sim_calls' = SimCallsUpTo(origins, inner, envs, Len(inner))
                   /\ outcomes' =
                        [idx \in 1 .. Len(inner) |->
                            IF is_valid(inner[idx])
                            THEN attach(inner[idx],
                                        OpValidationSimulator_simulate(envs[idx]))
                            ELSE inner[idx]]
    /\ vpc' = "validate_transactions"
    /\ UNCHANGED <<overflow_checks, limit_vars, cache_vars, builder_vars, bundle_vars,
                   callers>>

\* the pool takes the outcomes; the validator is ready for the next call
ValidatorReturn ==
    /\ vpc # "idle"
    /\ vpc' = "idle"
    /\ vin' = <<>>
    /\ inner_outcomes' = <<>>
    /\ outcomes' = <<>>
    /\ sim_calls' = <<>>
    /\ UNCHANGED <<overflow_checks, limit_vars, cache_vars, builder_vars, bundle_vars,
                   callers>>

\* the validator has no arithmetic that can overflow: one build profile
SimInit ==
    /\ overflow_checks = FALSE
    /\ LimitIdle
    /\ CacheIdle
    /\ BuilderIdle
    /\ BundleIdle
    /\ SimIdle
    /\ ConcIdle

SimNext ==
    \/ ValidateTransaction
    \/ ValidateTransactions
    \/ ValidatorReturn

SpecSim == SimInit /\ [][SimNext]_vars

\* ------------------------------ simulating validator: what the spec states
\* the inner validator accepted the transaction of this outcome
Accepted(outcome) == outcome.kind = "Valid" \/ outcome.kind = "ValidWithSidecar"

\* the number of accepted outcomes among the first i of the inner validator
AcceptedUpTo(i) == Cardinality({j \in 1 .. i : Accepted(inner_outcomes[j])})

\* the outcome at position i is the inner outcome with the result of
\* simulation call k attached to its transaction
AttachedAt(i, k) ==
    /\ outcomes[i].kind = inner_outcomes[i].kind
    /\ outcomes[i].transaction.id = inner_outcomes[i].transaction.id
    /\ outcomes[i].transaction.sim_outcome = <<sim_calls[k].result>>
    /\ sim_calls[k].tx = vin[i].transaction.id
    /\ sim_calls[k].origin = vin[i].origin

\* C22: validate_transaction returns the inner validator's outcome unchanged
\* for a transaction the inner validator does not accept, with no call of
\* the simulator; for an accepted one the simulator is called exactly once
\* and the outcome is the inner outcome with that result attached.
C22_SingleValidation ==
    vpc = "validate_transaction" =>
        /\ Len(outcomes) = 1
        /\ IF Accepted(inner_outcomes[1])
           THEN Len(sim_calls) = 1 /\ AttachedAt(1, 1)
           ELSE sim_calls = <<>> /\ outcomes[1] = inner_outcomes[1]

\* C22 witness: a transaction accepted with a sidecar got the outcome of its
\* one simulation, a success
C22_Witness ==
    /\ vpc = "validate_transaction"
    /\ inner_outcomes[1].kind = "ValidWithSidecar"
    /\ Len(sim_calls) = 1
    /\ outcomes[1].transaction.sim_outcome = <<sim_calls[1].result>>
    /\ sim_calls[1].result.success

\* C23: validate_transactions returns the inner validator's outcomes with
\* the same length and order, runs one simulation per accepted outcome and
\* none for the others, simulates position i with the origin of input i and
\* attaches each result to the transaction at the same position.
C23_BatchValidation ==
    vpc = "validate_transactions" =>
        /\ Len(outcomes) = Len(inner_outcomes)
        /\ Len(outcomes) = Len(vin)
        /\ Len(sim_calls) = AcceptedUpTo(Len(inner_outcomes))
        /\ \A i \in 1 .. Len(outcomes) :
              IF Accepted(inner_outcomes[i])
              THEN AttachedAt(i, AcceptedUpTo(i))
              ELSE outcomes[i] = inner_outcomes[i]

\* C23 witness: in a full batch the first and the last transaction have
\* different origins, both are accepted, their simulations gave different
\* results and the last result is attached at the last position
C23_Witness ==
    /\ vpc = "validate_transactions"
    /\ Len(vin) = MaxBatch
    /\ vin[1].origin # vin[MaxBatch].origin
    /\ Accepted(inner_outcomes[1])
    /\ Accepted(inner_outcomes[MaxBatch])
    /\ Len(sim_calls) = AcceptedUpTo(MaxBatch)
    /\ sim_calls[1].result # sim_calls[Len(sim_calls)].result
    /\ outcomes[MaxBatch].transaction.sim_outcome = <<sim_calls[Len(sim_calls)].result>>

\* C24: simulate always returns a SimOutcome: when the EVM environment, the
\* block builder or the pre-execution changes fail it has success = false,
\* invalid_other = true and no gas or time; when the transaction executes and
\* reverts it has success = false, invalid_other = false and both gas used
\* and elapsed time, so the two cases differ.
C24_SimulationFailureIsAnOutcome ==
    \A k \in 1 .. Len(sim_calls) :
        LET stage == sim_calls[k].env.stage
            r == sim_calls[k].result
        IN  /\ stage \in {"next_evm_env_err", "builder_for_next_block_err",
                          "apply_pre_execution_changes_err"}
                 => /\ ~r.success
                    /\ r.invalid_other
                    /\ r.simulated_gas_used = None
                    /\ r.execution_time_us = None
            /\ stage = "reverted"
                 => /\ ~r.success
                    /\ ~r.invalid_other
                    /\ r.simulated_gas_used # None
                    /\ r.execution_time_us # None

\* C24 witness: in one batch a simulation failed in the pre-execution changes
\* and another one reverted, and the two outcomes differ
C24_Witness ==
    /\ Len(sim_calls) = 2
    /\ sim_calls[1].env.stage = "apply_pre_execution_changes_err"
    /\ sim_calls[2].env.stage = "reverted"
    /\ sim_calls[1].result # sim_calls[2].result
    /\ sim_calls[2].result.execution_time_us = 0

\* ------------------------------------------------ limit checker: inputs
\* data sizes, gas limits and execution times of the candidates
DataSizes == {0, 100, U64Max}

GasLimits == {0, 400, U64Max - 300}

ExecTimes == {0, 120000, U128Max}

TxUsage ==
    [data_size : DataSizes, gas_limit : GasLimits, execution_time_us : ExecTimes]

\* the ceilings a block can be built under
LimitContext ==
    [block : [gas : {1000},
              data : {None, 300},
              da_footprint : {None, 900},
              execution_time_us : {200000}],
     tx : [data : {None, 200}],
     da_footprint_gas_scalar : {None, 4}]

\* gas a transaction can use once executed: up to its gas limit
GasUsed(usage) == {usage.gas_limit, usage.gas_limit \div 2}

\* ----------------------------------------------- limit checker: actions
LimitInit ==
    /\ overflow_checks \in BOOLEAN
    /\ info = with_capacity
    /\ limits \in LimitContext
    /\ cand = NoUsage
    /\ res = Ok
    /\ pc = "idle"
    /\ CacheIdle
    /\ BuilderIdle
    /\ BundleIdle
    /\ SimIdle
    /\ ConcIdle

\* the block-building task checks a candidate against the block's ceilings
LimitCheck(usage) ==
    /\ pc = "idle"
    /\ cand' = usage
    /\ res' = is_tx_over_limits(info, usage, limits, overflow_checks)
    /\ pc' = IF res' = Panicked THEN "panicked" ELSE "checked"
    /\ UNCHANGED <<overflow_checks, sim_vars, callers, bundle_vars, info, limits, cache_vars, builder_vars>>

\* on admission the caller folds the candidate's usage into the counters
LimitRecord(gas_used) ==
    /\ pc = "checked"
    /\ res = Ok
    /\ info' =
         [cumulative_gas_used |->
              saturating_add(info.cumulative_gas_used, gas_used, U64Max),
          cumulative_da_bytes_used |->
              saturating_add(info.cumulative_da_bytes_used, cand.data_size, U64Max),
          cumulative_execution_time_us |->
              saturating_add(info.cumulative_execution_time_us,
                             cand.execution_time_us, U128Max)]
    /\ cand' = NoUsage
    /\ res' = Ok
    /\ pc' = "idle"
    /\ UNCHANGED <<overflow_checks, sim_vars, callers, bundle_vars, limits, cache_vars, builder_vars>>

\* on rejection the caller excludes the candidate and goes on
LimitReject ==
    /\ pc = "checked"
    /\ res # Ok
    /\ cand' = NoUsage
    /\ res' = Ok
    /\ pc' = "idle"
    /\ UNCHANGED <<overflow_checks, sim_vars, callers, bundle_vars, info, limits, cache_vars, builder_vars>>

\* a new block begins: the cumulative state is reset
LimitNewBlock ==
    /\ pc = "idle"
    /\ info # with_capacity
    /\ info' = with_capacity
    /\ UNCHANGED <<overflow_checks, sim_vars, callers, bundle_vars, limits, cand, res, pc, cache_vars, builder_vars>>

LimitNext ==
    \/ \E usage \in TxUsage : LimitCheck(usage)
    \/ \E usage \in {cand} : \E gas_used \in GasUsed(usage) : LimitRecord(gas_used)
    \/ LimitReject
    \/ LimitNewBlock

SpecLimits == LimitInit /\ [][LimitNext]_vars

\* ------------------------------------- limit checker: what the spec states
\* a check has been evaluated on the candidate cand against the counters info
Checked == pc \in {"checked", "panicked"}

\* the five limits as section 4.1 states them, on the true (unbounded) sums
ViolatesTxDA ==
    limits.tx.data # None /\ cand.data_size > limits.tx.data

ViolatesBlockDA ==
    /\ limits.block.data # None
    /\ info.cumulative_da_bytes_used + cand.data_size > limits.block.data

ViolatesDAFootprint ==
    /\ limits.da_footprint_gas_scalar # None
    /\ (info.cumulative_da_bytes_used + cand.data_size)
           * limits.da_footprint_gas_scalar
         > unwrap_or(limits.block.da_footprint, limits.block.gas)

ViolatesBlockGas ==
    info.cumulative_gas_used + cand.gas_limit > limits.block.gas

ViolatesBlockTime ==
    info.cumulative_execution_time_us + cand.execution_time_us
        > limits.block.execution_time_us

DAChecksPass == ~ViolatesTxDA /\ ~ViolatesBlockDA /\ ~ViolatesDAFootprint

\* the reason of the earliest violated check, in the order of section 4.1
EarliestViolated ==
    IF ViolatesTxDA THEN "TransactionDALimitExceeded"
    ELSE IF ViolatesBlockDA \/ ViolatesDAFootprint THEN "BlockDALimitExceeded"
    ELSE IF ViolatesBlockGas THEN "TransactionGasLimitExceeded"
    ELSE IF ViolatesBlockTime THEN "BlockExecutionTimeLimitExceeded"
    ELSE "Ok"

\* C1: for every sequence of candidates whose usage is added to the counters
\* only after is_tx_over_limits returned Ok, cumulative gas never exceeds the
\* block gas limit, cumulative DA bytes never exceed the block DA limit (when
\* configured) and cumulative execution time never exceeds the time limit.
C1_CumulativeWithinCeilings ==
    /\ info.cumulative_gas_used <= limits.block.gas
    /\ limits.block.data # None
         => info.cumulative_da_bytes_used <= limits.block.data
    /\ info.cumulative_execution_time_us <= limits.block.execution_time_us

\* C6: when the DA checks pass and cumulative gas + candidate gas limit is
\* over the block gas limit, the result is TransactionGasLimitExceeded carrying
\* (cumulative gas before, candidate gas limit, block gas limit); a sum equal
\* to the limit is not rejected for gas.
C6_BlockGasCheck ==
    (Checked /\ DAChecksPass) =>
        IF ViolatesBlockGas
        THEN res = TransactionGasLimitExceeded(info.cumulative_gas_used,
                                               cand.gas_limit, limits.block.gas)
        ELSE res.kind \in {"Ok", "BlockExecutionTimeLimitExceeded"}

\* C7: the checks run in the order per-tx DA, block DA, DA footprint, block
\* gas, block execution time, and the returned reason is the one of the
\* earliest violated check, also when several limits are violated at once.
C7_FirstFailingCheckWins ==
    Checked => res.kind = EarliestViolated

\* C8: the gas sum of is_tx_over_limits clamps instead of wrapping or
\* panicking: a candidate whose true gas sum exceeds the u64 maximum is
\* rejected with TransactionGasLimitExceeded and never admitted.
C8_GasSumSaturates ==
    /\ pc # "panicked"
    /\ (Checked /\ DAChecksPass
          /\ info.cumulative_gas_used + cand.gas_limit > U64Max)
         => res.kind = "TransactionGasLimitExceeded"

C29_SkippedWithoutScalar ==
    /\ Checked
    /\ limits.da_footprint_gas_scalar = None
    /\ limits.block.da_footprint # None
    /\ info.cumulative_da_bytes_used + cand.data_size > limits.block.da_footprint
    /\ res.kind = "Ok"

\* C30: a candidate whose data size alone is over a configured per-transaction
\* DA limit is rejected with TransactionDALimitExceeded whatever the
\* cumulative state, and no other candidate is; a candidate that passes this
\* check and whose cumulative DA bytes + data size is over a configured block
\* DA limit is rejected with BlockDALimitExceeded(cumulative DA before, size,
\* limit); with neither limit configured no candidate is rejected for its DA
\* bytes (BlockDALimitExceeded then comes from the footprint check only).
C30_DAByteChecks ==
    Checked =>
        /\ res.kind = "TransactionDALimitExceeded"
             <=> (limits.tx.data # None /\ cand.data_size > limits.tx.data)
        /\ (/\ ~(limits.tx.data # None /\ cand.data_size > limits.tx.data)
            /\ limits.block.data # None
            /\ info.cumulative_da_bytes_used + cand.data_size > limits.block.data)
             => res = BlockDALimitExceeded(info.cumulative_da_bytes_used,
                                           cand.data_size, limits.block.data)
        /\ (limits.tx.data = None /\ limits.block.data = None)
             => /\ res.kind # "TransactionDALimitExceeded"
                /\ res.kind = "BlockDALimitExceeded"
                     => limits.da_footprint_gas_scalar # None

\* C30 witness: a candidate below both limits on its own is rejected for the
\* block DA limit because of the bytes admitted before it
C30_Witness ==
    /\ Checked
    /\ limits.tx.data # None
    /\ limits.block.data # None
    /\ cand.data_size <= limits.tx.data
    /\ cand.data_size <= limits.block.data
    /\ info.cumulative_da_bytes_used > 0
    /\ res = BlockDALimitExceeded(info.cumulative_da_bytes_used, cand.data_size,
                                  limits.block.data)

\* C30: a candidate over the per-transaction limit, rejected after bytes were
\* admitted
C30_TxLimitWitness ==
    /\ Checked
    /\ info.cumulative_da_bytes_used > 0
    /\ res = TransactionDALimitExceeded

\* ------------------------------------------ admission: check, then record
\* the measurements the metering cache holds while the block is built
AdmitMeasurements == [h \in Hashes |-> IF h = 1 THEN 60000 ELSE IF h = 2 THEN 120000 ELSE None]

\* the block's ceilings: every limit is configured
AdmitLimits ==
    [block |-> [gas |-> 1000, data |-> 300, da_footprint |-> 900,
                execution_time_us |-> 200000],
     tx |-> [data |-> 200],
     da_footprint_gas_scalar |-> 4]

\* a block is being built under enforced limits, with a cache that holds
\* measurements for the first two hashes
AdmitInit ==
    /\ overflow_checks \in BOOLEAN
    /\ info = with_capacity
    /\ limits = AdmitLimits
    /\ cand = NoUsage
    /\ res = Ok
    /\ pc = "idle"
    /\ enabled = TRUE
    /\ by_tx_hash = AdmitMeasurements
    /\ lru = <<>>
    /\ writer = NoWriter
    /\ got = NoGet
    /\ push_log = <<[tx |-> 1, m |-> 60000, enabled |-> TRUE],
                    [tx |-> 2, m |-> 120000, enabled |-> TRUE]>>
    /\ evicted = {}
    /\ cleared = FALSE
    /\ base = BaseExecutionState_default.cumulative_execution_time_us
    /\ fb_ctx = BaseFlashblocksCtx_new(ChainBlockTimeUs, TRUE)
    /\ fb_index = 0
    /\ bpc = "idle"
    /\ sent = 0
    /\ landed = [h \in Hashes |-> NotLanded]
    /\ left_out = {}
    /\ block_no = 0
    /\ chk = NoCheck
    /\ cfg = [per_batch_us |-> ChainBlockTimeUs, enforce |-> TRUE]
    /\ warned = 0
    /\ BundleIdle
    /\ SimIdle
    /\ ConcIdle

\* the block-building task checks a candidate: is_tx_over_limits, and after
\* it check_tx; a candidate can be checked while another one is in hand
AdmitCheck(usage, tx) ==
    /\ pc \in {"idle", "checked"}
    /\ cand' = usage
    /\ res' = is_tx_over_limits(info, usage, limits, overflow_checks)
    /\ chk' = IF res' = Ok
              THEN check_tx(base, tx, fb_ctx.target_execution_time_us,
                            usage.gas_limit, info.cumulative_gas_used,
                            limits.block.gas)
              ELSE NoCheck
    /\ pc' = IF res' = Panicked THEN "panicked" ELSE "checked"
    /\ UNCHANGED <<overflow_checks, sim_vars, callers, bundle_vars, info, limits,
                   cache_vars, base, fb_ctx, fb_index, bpc, sent, landed, left_out,
                   block_no, cfg, warned>>

\* the candidate in hand passed both checks and was executed: the caller
\* folds its usage into ExecutionInfo and calls record_tx with the usage
\* check_tx returned
AdmitRecord(gas_used) ==
    /\ pc = "checked"
    /\ res = Ok
    /\ chk.ok
    /\ chk.tx_hash # 0
    /\ LET recorded == record_tx(base, chk.tx_us, overflow_checks)
       IN  IF recorded = Overflow
           THEN /\ pc' = "panicked"
                /\ UNCHANGED <<info, base, cand, res, chk>>
           ELSE /\ base' = recorded
                /\ info' =
                     [cumulative_gas_used |->
                          saturating_add(info.cumulative_gas_used, gas_used, U64Max),
                      cumulative_da_bytes_used |->
                          saturating_add(info.cumulative_da_bytes_used,
                                         cand.data_size, U64Max),
                      cumulative_execution_time_us |->
                          saturating_add(info.cumulative_execution_time_us,
                                         cand.execution_time_us, U128Max)]
                /\ cand' = NoUsage
                /\ res' = Ok
                /\ chk' = NoCheck
                /\ pc' = "idle"
    /\ UNCHANGED <<overflow_checks, sim_vars, callers, bundle_vars, limits, cache_vars,
                   fb_ctx, fb_index, bpc, sent, landed, left_out, block_no, cfg,
                   warned>>

\* the candidate in hand is not included: rejected, or checked provisionally
AdmitExclude ==
    /\ pc = "checked"
    /\ cand' = NoUsage
    /\ res' = Ok
    /\ chk' = NoCheck
    /\ pc' = "idle"
    /\ UNCHANGED <<overflow_checks, sim_vars, callers, bundle_vars, info, limits,
                   cache_vars, base, fb_ctx, fb_index, bpc, sent, landed, left_out,
                   block_no, cfg, warned>>

\* a new block begins: fresh ExecutionInfo and BaseExecutionState
AdmitNewBlock ==
    /\ pc = "idle"
    /\ info # with_capacity
    /\ info' = with_capacity
    /\ base' = BaseExecutionState_default.cumulative_execution_time_us
    /\ UNCHANGED <<overflow_checks, sim_vars, callers, bundle_vars, limits, cand, res,
                   pc, cache_vars, fb_ctx, fb_index, bpc, sent, landed, left_out,
                   block_no, chk, cfg, warned>>

AdmitNext ==
    \/ \E usage \in TxUsage : \E tx \in Hashes : AdmitCheck(usage, tx)
    \/ \E usage \in {cand} : \E gas_used \in GasUsed(usage) : AdmitRecord(gas_used)
    \/ AdmitExclude
    \/ AdmitNewBlock

SpecAdmit == AdmitInit /\ [][AdmitNext]_vars

\* ------------------------------- admission: what the spec states
\* the candidate in hand passed both checks and leaves the caller's hand
RecordStep ==
    /\ pc = "checked"
    /\ pc' = "idle"
    /\ res = Ok
    /\ chk.ok

\* the step begins a new block
NewBlockStep ==
    /\ pc = "idle"
    /\ pc' = "idle"
    /\ info' = with_capacity
    /\ base' = 0

\* C25, each step: a step that checks a candidate, admitted or rejected,
\* leaves every cumulative counter as it was; the counters change only when
\* a usage is recorded or a block begins, and a record adds to the
\* cumulative execution time exactly the usage check_tx returned
C25_Step ==
    /\ pc' \in {"checked", "panicked"} => (info' = info /\ base' = base)
    /\ (info' # info \/ base' # base) =>
          \/ /\ RecordStep
             /\ base' = base + chk.tx_us
             /\ chk.tx_us = unwrap_or(by_tx_hash[chk.tx_hash], 0)
          \/ NewBlockStep

\* C25, each state: the results in hand are those of a single check of the
\* candidate on the counters as they are, however many checks were made
\* since the last record
C25_SameAsSingleCheck ==
    pc = "checked" =>
        /\ res = is_tx_over_limits(info, cand, limits, overflow_checks)
        /\ chk # NoCheck =>
              chk = check_tx(base, chk.tx_hash, fb_ctx.target_execution_time_us,
                             cand.gas_limit, info.cumulative_gas_used,
                             limits.block.gas)

\* C25: is_tx_over_limits and check_tx leave every cumulative counter
\* unchanged whether they admit or reject, so any number of checks gives
\* the results of a single one; cumulative execution time changes only
\* through record_tx, which adds exactly the usage check_tx returned.
C25_CheckAndRecordAreSeparate ==
    [](C25_SameAsSingleCheck) /\ [][C25_Step]_vars

\* C25 witness: with usage recorded for an earlier candidate, a candidate was
\* rejected by check_tx and the counters still hold the earlier usage only
C25_Witness ==
    /\ pc = "checked"
    /\ res = Ok
    /\ ~chk.ok
    /\ base = 120000
    /\ chk.tx_us = 120000
    /\ info.cumulative_da_bytes_used = 100

\* check_tx has rejected the candidate in hand
RejectedByCheckTx == pc = "checked" /\ res = Ok /\ chk # NoCheck /\ ~chk.ok

\* C31: a rejection of check_tx carries the candidate's hash, the cumulative
\* time before the candidate (not the sum), the candidate's time, the limit,
\* the candidate's gas, and the remaining gas = block gas limit - cumulative
\* gas used, 0 when the cumulative gas is over the block gas limit; the
\* amount over the budget is recomputed from the fields alone.
C31_RejectionContext ==
    RejectedByCheckTx =>
        /\ chk.tx_hash \in Hashes
        /\ chk.tx_us = (IF by_tx_hash[chk.tx_hash] # None
                        THEN by_tx_hash[chk.tx_hash] ELSE 0)
        /\ chk.cumulative_us = base
        /\ chk.limit_us = fb_ctx.target_execution_time_us
        /\ chk.tx_gas = cand.gas_limit
        /\ chk.remaining_gas =
             (IF info.cumulative_gas_used > limits.block.gas THEN 0
              ELSE limits.block.gas - info.cumulative_gas_used)
        /\ chk.cumulative_us + chk.tx_us - chk.limit_us
             = base + chk.tx_us - fb_ctx.target_execution_time_us
        /\ chk.cumulative_us + chk.tx_us - chk.limit_us > 0

\* C31 witness: a rejection on top of recorded time, with gas left
C31_Witness ==
    /\ RejectedByCheckTx
    /\ base > 0
    /\ chk.cumulative_us = base
    /\ chk.tx_us > 0
    /\ chk.remaining_gas > 0
    /\ chk.remaining_gas < limits.block.gas

\* C31: a rejection while the cumulative gas is over the block gas limit
C31_ClampedWitness ==
    /\ RejectedByCheckTx
    /\ info.cumulative_gas_used > limits.block.gas
    /\ chk.remaining_gas = 0

====
